---- MODULE Spec2Model ----
(***************************************************************************)
(* Verification model of the TSPI low-latency stream kit: the in-memory    *)
(* JetStream broker, the archiver and its datastore, the channel control   *)
(* plane and the player state engine.                                      *)
(*                                                                         *)
(* Subjects are modelled as sequences of tokens ("tspi.geocentric.1" is    *)
(* <<"tspi","geocentric","1">>), so that split(".") is the identity on the *)
(* representation and prefix tests are tests on leading tokens.            *)
(***************************************************************************)
EXTENDS Integers, Sequences, FiniteSets, TLC

VARIABLES
    \* ---- InMemoryJetStream / InMemoryConsumer (jetstream_sim.py)
    messages,        \* _messages: the stream, in publish order
    deduplication,   \* keys of _deduplication
    consumers,       \* consumer id -> [filter, cursor, delivered] or NoConsumer
    pulled,          \* consumer id -> stream indices returned by pull, in order
    publishCalls,    \* number of publish calls made so far
    publishResult,   \* return value of the latest publish call
    broker,          \* which broker implementation is in use
    \* ---- Archiver (archiver.py)
    started,         \* _subscriptions is non-empty
    cursors,         \* cursor of each of the three pull subscriptions
    apc,             \* position of the drain coroutine
    asub,            \* subscription the drain loop is working on
    abatch,          \* fetched stream indices still to be processed
    abatchSize,      \* batch_size of the running drain
    stored,          \* local counter of the running drain
    ainsert,         \* message_id returned by insert_message for the current message
    drainResult,     \* value returned by the latest completed drain
    drainSum,        \* sum of the values returned by all completed drains
    drainBase,       \* count_messages() when the running drain began
    acked,           \* stream indices acknowledged by the archiver
    insertReturned,  \* stream indices whose insert_message call returned
    insertRaised,    \* stream indices whose insert_message call raised
    skipped,         \* stream indices whose insert returned None
    projected,       \* stream indices for which a projection was run
    quiet,           \* nothing was published since the latest drain began
    \* ---- TimescaleDatastore (datastore.py)
    pool,            \* _pool is set (connect() was awaited)
    rows,            \* messages table, in id order
    commands,        \* commands table: cmd_id -> row
    tags,            \* tags table: id -> row
    storeCall,       \* latest direct insert_message call and its outcome
    \* ---- ChannelDirectory / ChannelManager (channels.py)
    channels,        \* ChannelDirectory._channels: channel_id -> descriptor
    activeGroup,     \* ChannelManager._active_group
    chanRet,         \* latest call on the manager or directory and what it returned
    chanCalls,       \* number of calls made so far
    startOrder,      \* channel ids of the start_group_replay calls, in call order
    \* ---- PlayerState (ui/player.py)
    feed,            \* messages the receiver's consumer has not delivered yet
    arrivals,        \* number of messages published to the player's channel
    timeline,        \* _timeline
    position,        \* _position
    playing,         \* _playing
    sidebandCursor,  \* _sideband_cursor
    displayUnits,    \* _display_units
    markerColor,     \* _marker_color
    playerTags,      \* _tags: tag id -> latest tag event
    emitted,         \* command_event / tag_event emissions of the latest call
    lastOp,          \* the latest call made on the PlayerState
    prevPosition,    \* _position before the latest call
    continuous,      \* every call so far moved the cursor forward over an untrimmed timeline
    historyLimit,    \* _history_limit
    currentChannel,  \* _current_channel: the channel of the one active receiver
    parked,          \* undelivered messages of the receiver of the other known channel
    frames,          \* _metrics.frames
    opResult,        \* how the latest call ended: "ok", False/True of seek_to_tag, or the error
    lastArg,         \* the channel name given to the latest call, when it was set_channel
    \* ---- StoreReplayer (replayer.py)
    replayStore,     \* the MessageRecords of the store, in (published_ts, id) order
    rtask,           \* per replay task: its position in _replay and what it did so far
    replays,         \* number of replay_time_window calls made
    \* ---- ClientPresenceTracker (ui/command_console.py)
    pclients,        \* _clients: client id -> ClientPresence
    porder,          \* _order
    pret,            \* what the latest process_payload call returned
    pcalls,          \* number of process_payload calls made
    firstTs,         \* client id -> timestamp parsed from the first payload of that client
    connectedEvents, \* client id -> number of "New client connected" events emitted
    \* ---- TSPIProducer (producer.py)
    allowed_sensors, \* _allowed_sensors: whether an allow-list is configured, and its ids
    publisherKind,   \* "sync": publish runs the broker publish; "async": it returns a coroutine
    publishExecs,    \* the broker publishes that were executed, in order
    unawaited,       \* coroutines returned by publish that nothing awaited
    ingestCalls,     \* number of ingest / ingest_async calls made
    ingestLog,       \* the latest call: api, datagram, result and executed publishes
    \* ---- subject helpers (jetstream_client.py, jetstream_sim.py)
    normalizeLog,    \* the latest normalize_stream_subjects call and its result
    matchLog,        \* the latest _match_subject call and its result
    \* ---- CommandSender, OpsControlSender (commands.py), TagSender (tags.py)
    sendLog,         \* the latest sender call: its arguments, outcome and publish calls
    opsActive,       \* OpsControlSender._active_channel_id
    opsHistory,      \* the start / stop calls that returned normally, in order
    sendCalls,       \* number of sender calls made
    \* ---- parse_tspi_datagram applied to two datagrams (datagrams.py)
    dedupLog,        \* the two datagrams and the deduplication ids they were given
    \* ---- the livestream channel of connect_in_memory (ui/player.py, receiver.py)
    liveConsumers,   \* the consumers of the channel's CompositeTSPIReceiver, in order
    liveSequence,    \* CompositeTSPIReceiver._sequence
    liveTimeline,    \* _timeline of the player on that channel, as stream positions
    liveEntered,     \* every stream position preload appended to the timeline, in order
    \* ---- UDPIngestProtocol (udp_ingest.py)
    udpTasks,        \* the _ingest tasks created so far, in creation order: how far each got
    udpPending,      \* _pending, as positions in udpTasks
    udpDrain,        \* the drain() coroutine: where it is and the tasks its gather waits for
    \* ---- HeadlessPlayerRunner (ui/player.py)
    runPc,           \* where run() is: not called yet, in its loop, or returned
    runFetched,      \* the messages the runner's player fetched and kept, in fetch order
    runApplied,      \* the messages _handle_message was given, in order
    \* ---- PlayerMetrics of the PlayerState (ui/player.py)
    metricsPosition, \* _metrics.position
    metricsEmitted   \* the records metrics_updated emitted during the latest call, each
                     \* with the engine state at that moment

brokerVars == <<messages, deduplication, consumers, pulled, publishCalls, publishResult, broker>>
archVars == <<started, cursors, apc, asub, abatch, abatchSize, stored, ainsert,
              drainResult, drainSum, drainBase, acked, insertReturned, insertRaised,
              skipped, projected, quiet>>
storeVars == <<pool, rows, commands, tags, storeCall>>

chanVars == <<channels, activeGroup, chanRet, chanCalls, startOrder>>

sourceVars == <<historyLimit, currentChannel, parked>>

playerVars == <<feed, arrivals, timeline, position, playing, sidebandCursor, displayUnits,
                markerColor, playerTags, emitted, lastOp, prevPosition, continuous,
                sourceVars, frames, opResult, lastArg>>

replayVars == <<replayStore, rtask, replays>>

presenceVars == <<pclients, porder, pret, pcalls, firstTs, connectedEvents>>

producerVars == <<allowed_sensors, publisherKind, publishExecs, unawaited, ingestCalls, ingestLog>>

subjectVars == <<normalizeLog, matchLog>>

senderVars == <<sendLog, opsActive, opsHistory, sendCalls>>

liveVars == <<liveConsumers, liveSequence, liveTimeline, liveEntered>>

udpVars == <<udpTasks, udpPending, udpDrain>>

runVars == <<runPc, runFetched, runApplied>>

metricsVars == <<metricsPosition, metricsEmitted>>

restVars == <<dedupLog, liveVars, udpVars, runVars, metricsVars>>

moreVars == <<subjectVars, senderVars, restVars>>

extVars == <<replayVars, presenceVars, producerVars, moreVars>>

vars == <<brokerVars, archVars, storeVars, chanVars, playerVars, extVars>>

----------------------------------------------------------------------------
\* Bounds of the model

MaxPublishes == 3

MaxBatch == 2

MaxChanCalls == 5

MaxFeed == 3

MaxRecords == 3

MaxReplays == 2

MaxReplayed == 1

MaxStatus == 3

MaxIngest == 3

MaxSubjects == 2

MaxFrames == 3

MaxSends == 3

MaxDatagrams == 3

MaxOpsFeed == 2

MaxSubjectTokens == 2

MaxFilterTokens == 3

MaxPacedReplays == 1

MaxLive == 1

HistoryLimit == 3

----------------------------------------------------------------------------
\* Inputs

NoId == "none"

NoConsumer == [filter |-> <<>>, cursor |-> 0, delivered |-> 0, live |-> FALSE]

ConsumerIds == {"k1", "k2"}

ConsumerFilters == {<<">">>, <<"tspi", ">">>, <<"tags", "*">>}

\* Decoded CBOR bodies.  k tells which keys the dictionary has: a telemetry
\* envelope (type, sensor_id, recv_epoch_ms = ts, ...), a command (cmd_id = id,
\* name, payload = val) or a tag event (id, status = val, ts).
Telemetry(recv) == [k |-> "tele", id |-> "", name |-> "", val |-> "", ts |-> recv]

TelemetryPayload == Telemetry(1)

Command(cmd_id, name, value) == [k |-> "cmd", id |-> cmd_id, name |-> name, val |-> value, ts |-> 0]

CommandPayload(cmd_id, units) == Command(cmd_id, "display.units", units)

TagPayload(tag_id, status, ts) == [k |-> "tag", id |-> tag_id, name |-> "", val |-> status, ts |-> ts]

Msg(subject, msgid, payload) == [subject |-> subject, msgid |-> msgid, payload |-> payload]

COMMAND_SUBJECT_PREFIX == <<"tspi", "cmd", "display">>

TAG_BROADCAST_SUBJECT == <<"tags", "broadcast">>

PubInputs ==
    { Msg(<<"tspi", "geocentric", "1">>, "m1", TelemetryPayload),
      Msg(<<"tspi", "geocentric", "1">>, "m2", TelemetryPayload),
      Msg(<<"tspi", "geocentric", "1">>, NoId, TelemetryPayload),
      Msg(COMMAND_SUBJECT_PREFIX \o <<"units">>, "c1", CommandPayload("c1", "imperial")),
      Msg(<<"cmd", "display", "units">>, "c2", CommandPayload("c2", "imperial")),
      Msg(TAG_BROADCAST_SUBJECT, "g1", TagPayload("x", "active", 1)),
      Msg(TAG_BROADCAST_SUBJECT, "g1", TagPayload("x", "deleted", 2)),
      Msg(<<"tspi", "channel", "replay", "r1">>, "m1", TelemetryPayload),
      Msg(<<"player", "room", "playout", "geocentric", "1">>, "m1r", TelemetryPayload) }

\* What the publishers of the archiver runs send.
ArchInputs ==
    { Msg(<<"tspi", "geocentric", "1">>, "m1", TelemetryPayload),
      Msg(<<"tspi", "geocentric", "1">>, NoId, TelemetryPayload),
      Msg(COMMAND_SUBJECT_PREFIX \o <<"units">>, "c1", CommandPayload("c1", "imperial")),
      Msg(<<"cmd", "display", "units">>, "c2", CommandPayload("c2", "imperial")),
      Msg(TAG_BROADCAST_SUBJECT, "g1", TagPayload("x", "active", 1)),
      Msg(TAG_BROADCAST_SUBJECT, "g1", TagPayload("x", "deleted", 2)),
      Msg(<<"player", "room", "playout", "geocentric", "1">>, "m1r", TelemetryPayload) }

\* What the publishers send in the runs where the store can fail.
FaultInputs ==
    { Msg(<<"tspi", "geocentric", "1">>, "m1", TelemetryPayload),
      Msg(<<"cmd", "display", "units">>, "c2", CommandPayload("c2", "imperial")),
      Msg(TAG_BROADCAST_SUBJECT, "g1", TagPayload("x", "active", 1)),
      Msg(TAG_BROADCAST_SUBJECT, "g1", TagPayload("x", "deleted", 2)) }

----------------------------------------------------------------------------
\* jetstream_sim.py

match_token(subject_token, pattern_token) ==
    IF pattern_token = ">" THEN TRUE
    ELSE IF pattern_token = "*" THEN TRUE
    ELSE subject_token = pattern_token

RECURSIVE match_from(_, _, _)
match_from(subject_tokens, pattern_tokens, index) ==
    IF index > Len(pattern_tokens)
    THEN Len(subject_tokens) = Len(pattern_tokens)
    ELSE IF pattern_tokens[index] = ">" THEN TRUE
    ELSE IF index > Len(subject_tokens) THEN FALSE
    ELSE IF ~match_token(subject_tokens[index], pattern_tokens[index]) THEN FALSE
    ELSE match_from(subject_tokens, pattern_tokens, index + 1)

match_subject(subject, pattern) ==
    IF pattern = <<">">> THEN TRUE
    ELSE match_from(subject, pattern, 1)

\* The while loop of InMemoryConsumer.pull: scans from the cursor until the
\* batch is full or the stream ends; returns the new cursor and the indices got.
RECURSIVE pull_loop(_, _, _, _, _)
pull_loop(stream, filter, cursor, got, batch) ==
    IF Len(got) < batch /\ cursor < Len(stream)
    THEN pull_loop(stream, filter, cursor + 1,
                   IF match_subject(stream[cursor + 1].subject, filter)
                   THEN Append(got, cursor + 1) ELSE got,
                   batch)
    ELSE [cursor |-> cursor, got |-> got]

Matched(stream, filter) ==
    {i \in 1..Len(stream) : match_subject(stream[i].subject, filter)}

Max(a, b) == IF a >= b THEN a ELSE b

Min(a, b) == IF a <= b THEN a ELSE b

pending(c) ==
    Max(Cardinality(Matched(messages, consumers[c].filter)) - consumers[c].delivered, 0)

\* publish with the deduplication test left out.
publish_without_dedup(stream, dedup, m) ==
    [messages |-> Append(stream, m),
     deduplication |-> IF m.msgid # NoId THEN dedup \cup {m.msgid} ELSE dedup,
     result |-> TRUE]

\* InMemoryJetStream.publish: the new stream, dedup table and return value.
publish(stream, dedup, m) ==
    IF m.msgid # NoId /\ m.msgid \in dedup
    THEN [messages |-> stream, deduplication |-> dedup, result |-> FALSE]
    ELSE [messages |-> Append(stream, m),
          deduplication |-> IF m.msgid # NoId THEN dedup \cup {m.msgid} ELSE dedup,
          result |-> TRUE]

\* _FakeJetStream.publish of the archiver tests: appends without deduplication.
fake_publish(stream, dedup, m) ==
    [messages |-> Append(stream, m), deduplication |-> dedup, result |-> TRUE]

Publish(m) ==
    /\ publishCalls < MaxPublishes
    /\ LET r == IF broker = "InMemoryJetStream"
                THEN publish(messages, deduplication, m)
                ELSE fake_publish(messages, deduplication, m) IN
         /\ messages' = r.messages
         /\ deduplication' = r.deduplication
         /\ publishResult' = [msgid |-> m.msgid, ok |-> r.result]
    /\ publishCalls' = publishCalls + 1
    /\ UNCHANGED <<consumers, pulled, broker>>

create_consumer(c, f) ==
    /\ ~consumers[c].live
    /\ consumers' = [consumers EXCEPT ![c] =
                        [filter |-> f, cursor |-> 0, delivered |-> 0, live |-> TRUE]]
    /\ UNCHANGED <<messages, deduplication, pulled, publishCalls, publishResult, broker>>

\* pull with the cursor left where it was.
pull_keeps_cursor(c, batch) ==
    /\ consumers[c].live
    /\ LET r == pull_loop(messages, consumers[c].filter, consumers[c].cursor, <<>>, batch) IN
         /\ consumers' = [consumers EXCEPT ![c].delivered = @ + Len(r.got)]
         /\ pulled' = [pulled EXCEPT ![c] = @ \o r.got]
    /\ UNCHANGED <<messages, deduplication, publishCalls, publishResult, broker>>

pull(c, batch) ==
    /\ consumers[c].live
    /\ LET r == pull_loop(messages, consumers[c].filter, consumers[c].cursor, <<>>, batch) IN
         /\ consumers' = [consumers EXCEPT ![c].cursor = r.cursor,
                                           ![c].delivered = @ + Len(r.got)]
         /\ pulled' = [pulled EXCEPT ![c] = @ \o r.got]
    /\ UNCHANGED <<messages, deduplication, publishCalls, publishResult, broker>>

----------------------------------------------------------------------------
\* datastore.py

NoneRet == 0

RaisedRet == 0 - 1

EmptyTable == [k \in {} |-> 0]

\* insert_message without the ON CONFLICT clause taking effect.
insert_message_always(table, connected, subject, kind, msgid, payload) ==
    IF ~connected
    THEN [rows |-> table, ret |-> RaisedRet]
    ELSE [rows |-> Append(table, [id |-> Len(table) + 1, subject |-> subject,
                                  kind |-> kind, nats_msg_id |-> msgid,
                                  payload |-> payload]),
          ret |-> Len(table) + 1]

\* INSERT ... ON CONFLICT (nats_msg_id) DO NOTHING RETURNING id.  A NULL
\* nats_msg_id never conflicts.  _require_pool raises before anything is
\* written when the store was never connected.
insert_message(table, connected, subject, kind, msgid, payload) ==
    IF ~connected
    THEN [rows |-> table, ret |-> RaisedRet]
    ELSE IF msgid # NoId /\ \E i \in 1..Len(table) : table[i].nats_msg_id = msgid
    THEN [rows |-> table, ret |-> NoneRet]
    ELSE [rows |-> Append(table, [id |-> Len(table) + 1, subject |-> subject,
                                  kind |-> kind, nats_msg_id |-> msgid,
                                  payload |-> payload]),
          ret |-> Len(table) + 1]

count_messages == Len(rows)

count_commands == Cardinality(DOMAIN commands)

count_tags == Cardinality(DOMAIN tags)

\* payload.get("cmd_id"): only command payloads carry one.
payload_cmd_id(payload) == IF payload.k = "cmd" THEN payload.id ELSE ""

\* payload.get("id"): only tag payloads carry one.
payload_tag_id(payload) == IF payload.k = "tag" THEN payload.id ELSE ""

upsert_command(table, payload, message_id) ==
    IF payload_cmd_id(payload) = ""
    THEN table
    ELSE [c \in DOMAIN table \cup {payload_cmd_id(payload)} |->
            IF c = payload_cmd_id(payload)
            THEN [name |-> payload.name,
                  units |-> IF payload.name = "display.units" THEN payload.val ELSE "",
                  message_id |-> message_id]
            ELSE table[c]]

MaxTs == 2

\* datetime.now() as seen by apply_tag_event: later than every payload timestamp.
NowTs == MaxTs + 1

Last(seq) == seq[Len(seq)]

apply_tag_event(table, subject, payload, message_id) ==
    IF payload_tag_id(payload) = ""
    THEN table
    ELSE LET tag_id == payload_tag_id(payload)
             exists == tag_id \in DOMAIN table
             updated_ts == IF payload.ts # 0 THEN payload.ts
                           ELSE IF exists THEN table[tag_id].updated_ts ELSE NowTs
             base_ts == IF payload.ts # 0 THEN payload.ts
                        ELSE IF exists THEN table[tag_id].ts ELSE NowTs
             status == IF Last(subject) = "delete" THEN "deleted"
                       ELSE IF Last(subject) = "broadcast"
                            THEN (IF payload.val # "" THEN payload.val ELSE "active")
                            ELSE "active"
         IN [t \in DOMAIN table \cup {tag_id} |->
                IF t = tag_id
                THEN [ts |-> base_ts, updated_ts |-> updated_ts, status |-> status,
                      message_id |-> message_id]
                ELSE table[t]]

\* list_tags: the ids of the rows it returns; ORDER BY only arranges them.
list_tags(table, include_deleted) ==
    {t \in DOMAIN table : include_deleted \/ table[t].status # "deleted"}

\* A direct call of TimescaleDatastore.apply_tag_event on a connected store.
ApplyTagEvent(subject, payload, message_id) ==
    /\ pool
    /\ tags' = apply_tag_event(tags, subject, payload, message_id)
    /\ UNCHANGED <<pool, rows, commands, storeCall>>

connect ==
    /\ pool' = TRUE
    /\ UNCHANGED <<rows, commands, tags, storeCall>>

close ==
    /\ pool' = FALSE
    /\ UNCHANGED <<rows, commands, tags, storeCall>>

\* A direct call of TimescaleDatastore.insert_message by a client of the store.
InsertMessage(m, kind) ==
    /\ Len(rows) < MaxPublishes
    /\ LET r == insert_message(rows, pool, m.subject, kind, m.msgid, m.payload) IN
         /\ rows' = r.rows
         /\ storeCall' = [subject |-> m.subject, ret |-> r.ret, before |-> Len(rows)]
    /\ UNCHANGED <<pool, commands, tags>>

----------------------------------------------------------------------------
\* channels.py

LIVESTREAM_SUBJECT == <<"tspi", "channel", "livestream">>

REPLAY_SUBJECT_PREFIX == <<"tspi", "channel", "replay">>

CLIENT_SUBJECT_PREFIX == <<"tspi", "channel", "client">>

None == <<>>

LivestreamId == <<"livestream">>

Descriptor(channel_id, subject, kind, identifier) ==
    [channel_id |-> channel_id, subject |-> subject, kind |-> kind, identifier |-> identifier]

live_channel == Descriptor(LivestreamId, LIVESTREAM_SUBJECT, "livestream", "")

\* Identifiers the operators use: an ISO timestamp and two spellings of a label.
ReplayIdentifiers == {"2025-09-28T11:00:00Z", "Intercept Window 3", " intercept window 3"}

\* _parse_timestamp succeeds on the identifier.
is_iso(identifier) == identifier = "2025-09-28T11:00:00Z"

\* _channel_suffix for timestamps, _slugify_identifier for labels.
channel_suffix(identifier) ==
    IF is_iso(identifier) THEN "20250928T110000Z" ELSE "intercept-window-3"

\* str.strip() on the inputs of the model.
strip(text) ==
    IF text = " intercept window 3" THEN "intercept window 3"
    ELSE IF text = " alice " THEN "alice"
    ELSE IF text = " red " THEN "red"
    ELSE IF text = " note " THEN "note"
    ELSE IF text = " " THEN ""
    ELSE text

group_replay_channel(identifier) ==
    Descriptor(<<"replay", channel_suffix(identifier)>>,
               REPLAY_SUBJECT_PREFIX \o <<channel_suffix(identifier)>>,
               "group_replay",
               strip(identifier))

ClientNames == {"alice", " alice ", ""}

SessionNames == {"s1", ""}

private_channel(client_id, session_id) ==
    Descriptor(<<"client", strip(client_id), strip(session_id)>>,
               CLIENT_SUBJECT_PREFIX \o <<strip(client_id), strip(session_id)>>,
               "private_replay",
               "")

\* ChannelDirectory.upsert
upsert(table, channel, advertise) ==
    IF channel.kind = "private_replay" /\ ~advertise
    THEN table
    ELSE [c \in DOMAIN table \cup {channel.channel_id} |->
            IF c = channel.channel_id THEN channel ELSE table[c]]

\* remove without the guard for the livestream.
remove_any(table, channel_id) ==
    [c \in DOMAIN table \ {channel_id} |-> table[c]]

\* ChannelDirectory.remove
remove(table, channel_id) ==
    IF channel_id = LivestreamId
    THEN table
    ELSE [c \in DOMAIN table \ {channel_id} |-> table[c]]

\* The channel ids of the model in ascending string order, for sorted().
ChannelIdOrder ==
    << <<"client", "alice", "s1">>, LivestreamId,
       <<"replay", "20250928T110000Z">>, <<"replay", "intercept-window-3">> >>

IdRank(channel_id) ==
    CHOOSE r \in 1..Len(ChannelIdOrder) : ChannelIdOrder[r] = channel_id

\* ChannelDirectory._SORT_ORDER.get(kind, 99)
sort_order(kind) ==
    IF kind = "group_replay" THEN 0 ELSE IF kind = "private_replay" THEN 1 ELSE 99

SortKeyBefore(a, b) ==
    \/ sort_order(a.kind) < sort_order(b.kind)
    \/ sort_order(a.kind) = sort_order(b.kind) /\ IdRank(a.channel_id) < IdRank(b.channel_id)

RECURSIVE SetToSeq(_)
SetToSeq(set) ==
    IF set = {} THEN <<>>
    ELSE LET x == CHOOSE y \in set : TRUE IN <<x>> \o SetToSeq(set \ {x})

\* ChannelDirectory.list_channels
list_channels(table, include_private) ==
    LET others == {table[c] : c \in DOMAIN table \ {LivestreamId}}
        shown == {ch \in others : ~(ch.kind = "private_replay" /\ ~include_private)}
    IN <<table[LivestreamId]>> \o SortSeq(SetToSeq(shown), SortKeyBefore)

\* start_group_replay leaving _active_group as it was.
start_group_replay_keeps_active(table, active, identifier) ==
    [channels |-> upsert(table, group_replay_channel(identifier), TRUE),
     active |-> active,
     ret |-> group_replay_channel(identifier).channel_id]

\* ChannelManager.start_group_replay
start_group_replay(table, active, identifier) ==
    [channels |-> upsert(table, group_replay_channel(identifier), TRUE),
     active |-> group_replay_channel(identifier).channel_id,
     ret |-> group_replay_channel(identifier).channel_id]

\* stop_group_replay without the test of the channel's kind.
stop_group_replay_any_kind(table, active, channel_id) ==
    LET target == IF channel_id = None THEN active ELSE channel_id IN
    IF target = None \/ target \notin DOMAIN table
    THEN [channels |-> table, active |-> active, ret |-> None]
    ELSE [channels |-> remove(table, target),
          active |-> IF active = target THEN None ELSE active,
          ret |-> target]

\* ChannelManager.stop_group_replay; channel_id None stands for the omitted argument.
stop_group_replay(table, active, channel_id) ==
    LET target == IF channel_id = None THEN active ELSE channel_id IN
    IF target = None
    THEN [channels |-> table, active |-> active, ret |-> None]
    ELSE IF target \notin DOMAIN table
    THEN [channels |-> table, active |-> active, ret |-> None]
    ELSE IF table[target].kind # "group_replay"
    THEN [channels |-> table, active |-> active, ret |-> None]
    ELSE [channels |-> remove(table, target),
          active |-> IF active = target THEN None ELSE active,
          ret |-> target]

\* ChannelManager.register_private_channel; private_channel raises ValueError
\* when a part is empty after strip.
register_private_channel(table, client_id, session_id, advertise) ==
    IF strip(client_id) = "" \/ strip(session_id) = ""
    THEN [channels |-> table, ret |-> <<"ValueError">>]
    ELSE [channels |-> upsert(table, private_channel(client_id, session_id), advertise),
          ret |-> private_channel(client_id, session_id).channel_id]

\* ChannelManager.remove_private_channel
remove_private_channel(table, client_id, session_id) ==
    remove(table, <<"client", strip(client_id), strip(session_id)>>)

ChannelCall(op, arg, ret) ==
    /\ chanCalls < MaxChanCalls
    /\ chanCalls' = chanCalls + 1
    /\ chanRet' = [op |-> op, arg |-> arg, ret |-> ret]

StartGroupReplay(identifier) ==
    LET r == start_group_replay(channels, activeGroup, identifier) IN
    /\ ChannelCall("start_group_replay", identifier, r.ret)
    /\ channels' = r.channels
    /\ activeGroup' = r.active
    /\ startOrder' = Append(startOrder, group_replay_channel(identifier).channel_id)

StopGroupReplay(channel_id) ==
    LET r == stop_group_replay(channels, activeGroup, channel_id) IN
    /\ ChannelCall("stop_group_replay", channel_id, r.ret)
    /\ channels' = r.channels
    /\ activeGroup' = r.active
    /\ UNCHANGED startOrder

RegisterPrivateChannel(client_id, session_id, advertise) ==
    LET r == register_private_channel(channels, client_id, session_id, advertise) IN
    /\ ChannelCall("register_private_channel", <<client_id, session_id>>, r.ret)
    /\ channels' = r.channels
    /\ UNCHANGED <<activeGroup, startOrder>>

RemovePrivateChannel(client_id, session_id) ==
    /\ ChannelCall("remove_private_channel", <<client_id, session_id>>, None)
    /\ channels' = remove_private_channel(channels, client_id, session_id)
    /\ UNCHANGED <<activeGroup, startOrder>>

DirectoryRemove(channel_id) ==
    /\ ChannelCall("remove", channel_id, None)
    /\ channels' = remove(channels, channel_id)
    /\ UNCHANGED <<activeGroup, startOrder>>

----------------------------------------------------------------------------
\* ui/player.py, ui/config.py

default_units == "metric"

default_marker_color == "#00ff00"

DEFAULT_PRELOAD_BATCH == 50

\* What reaches the player's channel: telemetry received at two instants, a
\* units command, a marker colour command and the two states of a tag.
PlayerMsgs ==
    { Telemetry(1), Telemetry(2),
      Command("c1", "display.units", "imperial"),
      Command("c2", "display.marker_color", "red"),
      TagPayload("x", "active", 1),
      TagPayload("x", "deleted", 2) }

\* "cmd_id" in message
has_cmd_id(message) == message.k = "cmd"

\* PlayerState._is_tag_event
is_tag_event(message) == message.k = "tag"

\* message.get("recv_iso"), 0 when the key is absent: only telemetry carries it.
recv_iso(message) == IF message.k = "tele" THEN message.ts ELSE 0

Event(signal, message) == [signal |-> signal, message |-> message]

\* The latest-value state the handlers work on, with the events they emit.
PlayerView(units, color, tagtable, events) ==
    [units |-> units, color |-> color, tags |-> tagtable, events |-> events]

\* PlayerState._handle_command
handle_command(st, message) ==
    LET units == IF message.name = "display.units"
                    /\ message.val \in {"metric", "imperial"} /\ message.val # st.units
                 THEN message.val ELSE st.units
        color == IF message.name = "display.marker_color"
                    /\ message.val # "" /\ message.val # st.color
                 THEN message.val ELSE st.color
    IN PlayerView(units, color, st.tags, Append(st.events, Event("command_event", message)))

\* PlayerState._handle_tag
handle_tag(st, message) ==
    IF message.id = ""
    THEN st
    ELSE LET table == IF message.val = "deleted"
                      THEN [t \in DOMAIN st.tags \ {message.id} |-> st.tags[t]]
                      ELSE [t \in DOMAIN st.tags \cup {message.id} |->
                              IF t = message.id THEN message ELSE st.tags[t]]
         IN PlayerView(st.units, st.color, table, Append(st.events, Event("tag_event", message)))

\* PlayerState._handle_message; telemetry only moves the map.
handle_message(st, message) ==
    IF has_cmd_id(message) THEN handle_command(st, message)
    ELSE IF is_tag_event(message) THEN handle_tag(st, message)
    ELSE st

\* The loop of _replay_sideband over _timeline[start:end], from its index-th element.
RECURSIVE replay_from(_, _, _, _)
replay_from(st, line, index, end) ==
    IF index > end
    THEN st
    ELSE replay_from(IF has_cmd_id(line[index]) THEN handle_command(st, line[index])
                     ELSE IF is_tag_event(line[index]) THEN handle_tag(st, line[index])
                     ELSE st,
                     line, index + 1, end)

\* _replay_sideband replaying the commands but not the tags.
replay_sideband_without_tags(st, line, start, end) ==
    IF end <= start
    THEN st
    ELSE LET only == [i \in 1..Len(line) |-> IF is_tag_event(line[i]) THEN Telemetry(1) ELSE line[i]]
         IN replay_from(st, only, Max(0, start) + 1, Min(end, Len(line)))

\* PlayerState._replay_sideband; start and end are the 0-based slice bounds.
replay_sideband(st, line, start, end) ==
    IF end <= start
    THEN st
    ELSE replay_from(st, line, Max(0, start) + 1, Min(end, Len(line)))

\* _handle_jump replaying the skipped slice in both directions.
handle_jump_both_ways(st, cursor, line, previous, current) ==
    IF current > previous
    THEN [view |-> replay_sideband(st, line, previous, current), cursor |-> current]
    ELSE IF current < previous
    THEN [view |-> replay_sideband(st, line, current, previous), cursor |-> Min(cursor, current)]
    ELSE [view |-> st, cursor |-> cursor]

\* PlayerState._handle_jump: the new latest-value state and sideband cursor.
handle_jump(st, cursor, line, previous, current) ==
    IF current > previous
    THEN [view |-> replay_sideband(st, line, previous, current), cursor |-> current]
    ELSE IF current < previous
    THEN [view |-> st, cursor |-> Min(cursor, current)]
    ELSE [view |-> st, cursor |-> cursor]

\* The view the call starts from: the latest values, no event emitted yet.
View == PlayerView(displayUnits, markerColor, playerTags, <<>>)

SetView(st) ==
    /\ displayUnits' = st.units
    /\ markerColor' = st.color
    /\ playerTags' = st.tags
    /\ emitted' = st.events

Called(op) ==
    /\ lastOp' = op
    /\ prevPosition' = position
    /\ lastArg' = ""

\* The call returned normally.
Ok == opResult' = "ok"

\* A publisher sends one more message to the channel the player follows.
Arrive(message) ==
    /\ arrivals < MaxFeed
    /\ arrivals' = arrivals + 1
    /\ feed' = Append(feed, message)
    /\ UNCHANGED <<timeline, position, playing, sidebandCursor, displayUnits, markerColor,
                   playerTags, emitted, lastOp, prevPosition, continuous, sourceVars,
                   frames, opResult, lastArg>>

\* A publisher sends one more message to the other known channel.
ArriveElsewhere(message) ==
    /\ arrivals < MaxFeed
    /\ arrivals' = arrivals + 1
    /\ parked' = Append(parked, message)
    /\ UNCHANGED <<feed, timeline, position, playing, sidebandCursor, displayUnits,
                   markerColor, playerTags, emitted, lastOp, prevPosition, continuous,
                   historyLimit, currentChannel, frames, opResult, lastArg>>

\* A telemetry-shaped payload the schema rejects; typed tells whether it has
\* the "type" and "sensor_id" keys TSPIReceiver._is_telemetry looks for.
BadTelemetry(typed) ==
    [k |-> "bad", id |-> "", name |-> "", val |-> IF typed THEN "typed" ELSE "untyped", ts |-> 0]

\* validate_payload raises ValidationError for the payload.
fails_schema(message) == message.k = "bad"

\* TSPIReceiver.fetch validates what _is_telemetry accepts and lets the
\* ValidationError out.
fetch_raises(decoded) ==
    \E i \in 1..Len(decoded) : fails_schema(decoded[i]) /\ decoded[i].val = "typed"

\* The filter loop of preload: tag events and commands pass, anything else
\* passes when the schema accepts it.
preload_keeps(message) ==
    is_tag_event(message) \/ has_cmd_id(message) \/ ~fails_schema(message)

preload_filter(decoded) == SelectSeq(decoded, preload_keeps)

\* The effect of preload(batch) on feed, timeline, position and sideband cursor.
\* preload without the trimming of the timeline to the history limit.
preload_untrimmed(batch) ==
    LET n == Min(batch, Len(feed))
        decoded == SubSeq(feed, 1, n)
    IN [feed |-> SubSeq(feed, n + 1, Len(feed)),
        timeline |-> IF fetch_raises(decoded) THEN timeline
                     ELSE timeline \o preload_filter(decoded),
        position |-> position, cursor |-> sidebandCursor, drop |-> 0,
        fetched |-> decoded, raised |-> fetch_raises(decoded)]

\* The consumer's pull always advances; when fetch raises, the pulled batch
\* is gone and nothing else changes.
preload(batch) ==
    LET n == Min(batch, Len(feed))
        decoded == SubSeq(feed, 1, n)
        filtered == preload_filter(decoded)
        extended == timeline \o filtered
        drop == IF Len(extended) > historyLimit THEN Len(extended) - historyLimit ELSE 0
    IN IF fetch_raises(decoded)
       THEN [feed |-> SubSeq(feed, n + 1, Len(feed)), timeline |-> timeline,
             position |-> position, cursor |-> sidebandCursor, drop |-> 0,
             fetched |-> decoded, raised |-> TRUE]
       ELSE [feed |-> SubSeq(feed, n + 1, Len(feed)),
             timeline |-> SubSeq(extended, drop + 1, Len(extended)),
             position |-> IF drop > 0 THEN Max(0, position - drop) ELSE position,
             cursor |-> IF drop > 0 THEN Max(0, sidebandCursor - drop) ELSE sidebandCursor,
             drop |-> drop, fetched |-> decoded, raised |-> FALSE]

Preload(batch) ==
    /\ feed # <<>>
    /\ LET r == preload(batch) IN
         /\ feed' = r.feed
         /\ timeline' = r.timeline
         /\ position' = r.position
         /\ sidebandCursor' = r.cursor
         /\ continuous' = (continuous /\ r.drop = 0)
         /\ opResult' = IF r.raised THEN "ValidationError" ELSE "ok"
    /\ Called("preload")
    /\ emitted' = <<>>
    /\ UNCHANGED <<arrivals, playing, displayUnits, markerColor, playerTags, sourceVars, frames>>

Start ==
    /\ ~playing
    /\ playing' = TRUE
    /\ Called("start")
    /\ Ok
    /\ emitted' = <<>>
    /\ UNCHANGED <<feed, arrivals, timeline, position, sidebandCursor, displayUnits,
                   markerColor, playerTags, continuous, sourceVars, frames>>

Pause ==
    /\ playing
    /\ playing' = FALSE
    /\ Called("pause")
    /\ Ok
    /\ emitted' = <<>>
    /\ UNCHANGED <<feed, arrivals, timeline, position, sidebandCursor, displayUnits,
                   markerColor, playerTags, continuous, sourceVars, frames>>

\* step_once / _tick while playing.
StepOnce ==
    /\ playing
    /\ frames < MaxFrames
    /\ LET r == IF position >= Len(timeline)
                THEN preload(DEFAULT_PRELOAD_BATCH)
                ELSE [feed |-> feed, timeline |-> timeline, position |-> position,
                      cursor |-> sidebandCursor, drop |-> 0, fetched |-> <<>>,
                      raised |-> FALSE]
       IN /\ feed' = r.feed
          /\ timeline' = r.timeline
          /\ continuous' = (continuous /\ r.drop = 0)
          /\ opResult' = IF r.raised THEN "ValidationError" ELSE "ok"
          /\ IF r.raised
             THEN /\ emitted' = <<>>
                  /\ UNCHANGED <<playing, position, sidebandCursor, displayUnits,
                                 markerColor, playerTags, frames>>
             ELSE IF r.position >= Len(r.timeline)
             THEN /\ playing' = FALSE
                  /\ position' = r.position
                  /\ sidebandCursor' = r.cursor
                  /\ emitted' = <<>>
                  /\ UNCHANGED <<displayUnits, markerColor, playerTags, frames>>
             ELSE /\ position' = r.position + 1
                  /\ frames' = frames + 1
                  /\ SetView(handle_message(View, r.timeline[r.position + 1]))
                  /\ sidebandCursor' = Max(r.cursor, r.position + 1)
                  /\ UNCHANGED playing
    /\ Called("step_once")
    /\ UNCHANGED <<arrivals, sourceVars>>

\* The index seek() lands on: the first entry received at or after the target.
seek_position(line, current, target) ==
    LET hits == {i \in 1..Len(line) : recv_iso(line[i]) # 0 /\ recv_iso(line[i]) >= target}
    IN IF hits = {} THEN current
       ELSE (CHOOSE i \in hits : \A j \in hits : i <= j) - 1

Seek(target) ==
    /\ LET new_position == seek_position(timeline, position, target)
           r == handle_jump(View, sidebandCursor, timeline, position, new_position) IN
         /\ position' = new_position
         /\ SetView(r.view)
         /\ sidebandCursor' = r.cursor
         /\ continuous' = (continuous /\ new_position >= position)
    /\ Called("seek")
    /\ Ok
    /\ UNCHANGED <<feed, arrivals, timeline, playing, sourceVars, frames>>

ScrubToIndex(index) ==
    /\ timeline # <<>>
    /\ LET clamped == Max(0, Min(index, Len(timeline) - 1))
           r == handle_jump(View, sidebandCursor, timeline, position, clamped) IN
         /\ position' = clamped
         /\ SetView(r.view)
         /\ sidebandCursor' = r.cursor
         /\ continuous' = (continuous /\ clamped >= position)
    /\ Called("scrub_to_index")
    /\ Ok
    /\ UNCHANGED <<feed, arrivals, timeline, playing, sourceVars, frames>>

\* The entries of the timeline whose "id" is tag_id.
tag_hits(line, tag_id) ==
    {i \in 1..Len(line) : is_tag_event(line[i]) /\ line[i].id = tag_id}

\* The 0-based index of the first of them.
tag_index(line, tag_id) ==
    (CHOOSE i \in tag_hits(line, tag_id) : \A j \in tag_hits(line, tag_id) : i <= j) - 1

\* seek_to_tag: a tag event still on the timeline is jumped to directly; a tag
\* known only from the tag table is looked up by its timestamp with seek().
SeekToTag(tag_id) ==
    /\ Called("seek_to_tag")
    /\ IF tag_id = ""
       THEN /\ opResult' = "False"
            /\ emitted' = <<>>
            /\ UNCHANGED <<position, sidebandCursor, displayUnits, markerColor, playerTags,
                           continuous>>
       ELSE IF tag_hits(timeline, tag_id) # {}
       THEN /\ position' = tag_index(timeline, tag_id)
            /\ opResult' = "True"
            /\ emitted' = <<>>
            /\ continuous' = (continuous /\ position' >= position)
            /\ UNCHANGED <<sidebandCursor, displayUnits, markerColor, playerTags>>
       ELSE IF tag_id \in DOMAIN playerTags
       THEN LET new_position == seek_position(timeline, position, playerTags[tag_id].ts)
                r == handle_jump(View, sidebandCursor, timeline, position, new_position) IN
              /\ position' = new_position
              /\ SetView(r.view)
              /\ sidebandCursor' = r.cursor
              /\ continuous' = (continuous /\ new_position >= position)
              /\ opResult' = "True"
       ELSE /\ opResult' = "False"
            /\ emitted' = <<>>
            /\ UNCHANGED <<position, sidebandCursor, displayUnits, markerColor, playerTags,
                           continuous>>
    /\ UNCHANGED <<feed, arrivals, timeline, playing, sourceVars, frames>>

KnownChannels == {"livestream", "replay.default"}

\* PlayerState._normalise_channel_name of a stripped name.
normalise_channel_name(label) ==
    IF label \in {"live", "livestream"} THEN "livestream"
    ELSE IF label = "historical" THEN "replay.default"
    ELSE label

\* The two early returns of set_channel without the test for the current channel.
set_channel_switches(channel) ==
    normalise_channel_name(channel) \in KnownChannels

\* The two early returns of set_channel: it goes on only for a known channel
\* other than the current one.
set_channel_switches_known(channel) ==
    /\ normalise_channel_name(channel) \in KnownChannels
    /\ normalise_channel_name(channel) # currentChannel

\* set_channel: an empty name is a ValueError; an unknown or the current
\* channel returns at once; otherwise the other channel's receiver takes over.
SetChannel(channel) ==
    /\ lastOp' = "set_channel"
    /\ prevPosition' = position
    /\ lastArg' = channel
    /\ emitted' = <<>>
    /\ IF channel = ""
       THEN /\ opResult' = "ValueError"
            /\ UNCHANGED <<feed, timeline, position, sidebandCursor, sourceVars, frames>>
       ELSE IF ~set_channel_switches_known(channel)
       THEN /\ Ok
            /\ UNCHANGED <<feed, timeline, position, sidebandCursor, sourceVars, frames>>
       ELSE /\ Ok
            /\ currentChannel' = normalise_channel_name(channel)
            /\ feed' = parked
            /\ parked' = feed
            /\ timeline' = <<>>
            /\ position' = 0
            /\ sidebandCursor' = 0
            /\ frames' = 0
            /\ UNCHANGED historyLimit
    /\ UNCHANGED <<arrivals, playing, displayUnits, markerColor, playerTags, continuous>>

----------------------------------------------------------------------------
\* archiver.py

\* Archiver.start: the three pull subscriptions, in dictionary order.
SubscriptionKinds == <<"telemetry", "commands", "tags">>

SubscriptionFilters == << <<"tspi", ">">>, <<"cmd", "display", "units">>, <<"tags", ">">> >>

NumSubscriptions == Len(SubscriptionKinds)

\* subject.startswith("cmd.display")
starts_with_cmd_display(subject) ==
    Len(subject) >= 2 /\ subject[1] = "cmd" /\ subject[2] = "display"

\* subject.startswith("tags.")
starts_with_tags(subject) == Len(subject) >= 2 /\ subject[1] = "tags"

\* subject.startswith("tspi.") or ".tspi." in subject
is_tspi_subject(subject) ==
    \/ Len(subject) >= 2 /\ subject[1] = "tspi"
    \/ \E i \in 2..(Len(subject) - 1) : subject[i] = "tspi"

classify_kind(subject, default_kind) ==
    IF starts_with_cmd_display(subject) THEN "command"
    ELSE IF starts_with_tags(subject) THEN "tag"
    ELSE IF is_tspi_subject(subject) THEN "telemetry"
    ELSE default_kind

\* The loop body acknowledging the message before it is inserted.
AfterFetchAckFirst == "ack"

\* The loop body starts with the insert; the ack follows it.
AfterFetch == "insert"

\* The loop body without the test for None.
ProjectionRunsAlways(message_id) == TRUE

\* if message_id is None: continue
ProjectionRuns(message_id) == message_id # NoneRet

\* Where the drain loop goes once the messages of the current batch are used
\* up: the next subscription, or the return statement after the last one
\* (the locals of the call end with it).
AfterBatch(count) ==
    IF asub < NumSubscriptions
    THEN /\ apc' = "fetch"
         /\ asub' = asub + 1
         /\ stored' = count
         /\ UNCHANGED <<drainResult, drainSum, abatchSize, ainsert>>
    ELSE /\ apc' = "idle"
         /\ asub' = 0
         /\ drainResult' = count
         /\ drainSum' = drainSum + count
         /\ stored' = 0
         /\ abatchSize' = 1
         /\ ainsert' = NoneRet

\* drain(batch_size) up to its first await: start() on first use, stored = 0.
DrainStart(batch_size) ==
    /\ apc = "idle"
    /\ started' = TRUE
    /\ pool' = TRUE
    /\ apc' = "fetch"
    /\ asub' = 1
    /\ abatch' = <<>>
    /\ abatchSize' = batch_size
    /\ stored' = 0
    /\ ainsert' = NoneRet
    /\ drainBase' = count_messages
    /\ quiet' = TRUE
    /\ UNCHANGED <<cursors, drainResult, drainSum, acked, insertReturned, insertRaised,
                   skipped, projected>>
    /\ UNCHANGED <<rows, commands, tags, storeCall>>

\* await subscription.fetch(batch_size, timeout)
DrainFetch ==
    /\ apc = "fetch"
    /\ LET r == pull_loop(messages, SubscriptionFilters[asub], cursors[asub], <<>>, abatchSize) IN
         /\ cursors' = [cursors EXCEPT ![asub] = r.cursor]
         /\ abatch' = r.got
         /\ IF r.got = <<>>
            THEN AfterBatch(stored)
            ELSE /\ apc' = AfterFetch
                 /\ UNCHANGED <<asub, drainResult, drainSum, stored, abatchSize, ainsert>>
    /\ UNCHANGED <<started, drainBase, acked, insertReturned,
                   insertRaised, skipped, projected, quiet>>
    /\ UNCHANGED storeVars

\* await self._datastore.insert_message(...), returning normally.
DrainInsert ==
    /\ apc = "insert"
    /\ LET index == Head(abatch)
           m == messages[index]
           r == insert_message(rows, pool, m.subject,
                               classify_kind(m.subject, SubscriptionKinds[asub]),
                               m.msgid, m.payload) IN
         /\ rows' = r.rows
         /\ ainsert' = r.ret
         /\ insertReturned' = insertReturned \cup {index}
    /\ apc' = "ack"
    /\ UNCHANGED <<started, cursors, asub, abatch, abatchSize, stored, drainResult, drainSum,
                   drainBase, acked, insertRaised, skipped, projected, quiet>>
    /\ UNCHANGED <<pool, commands, tags, storeCall>>

\* await self._datastore.insert_message(...), raising (the database is
\* unreachable): the exception leaves drain, nothing after it runs.
DrainInsertRaises ==
    /\ apc = "insert"
    /\ insertRaised' = insertRaised \cup {Head(abatch)}
    /\ apc' = "idle"
    /\ asub' = 0
    /\ abatch' = <<>>
    /\ stored' = 0
    /\ abatchSize' = 1
    /\ ainsert' = NoneRet
    /\ UNCHANGED <<started, cursors, drainResult, drainSum,
                   drainBase, acked, insertReturned, skipped, projected, quiet>>
    /\ UNCHANGED storeVars

\* await message.ack()
DrainAck ==
    /\ apc = "ack"
    /\ acked' = acked \cup {Head(abatch)}
    /\ apc' = "project"
    /\ UNCHANGED <<started, cursors, asub, abatch, abatchSize, stored, ainsert, drainResult,
                   drainSum, drainBase, insertReturned, insertRaised, skipped, projected,
                   quiet>>
    /\ UNCHANGED storeVars

\* The rest of the loop body: skip on None, else count and project.
DrainProject ==
    /\ apc = "project"
    /\ LET index == Head(abatch)
           m == messages[index]
           rest == Tail(abatch)
           count == IF ProjectionRuns(ainsert) THEN stored + 1 ELSE stored IN
         /\ IF ~ProjectionRuns(ainsert)
            THEN /\ skipped' = skipped \cup {index}
                 /\ UNCHANGED <<commands, tags, projected>>
            ELSE /\ commands' = IF starts_with_cmd_display(m.subject)
                                THEN upsert_command(commands, m.payload, ainsert)
                                ELSE commands
                 /\ tags' = IF starts_with_tags(m.subject)
                            THEN apply_tag_event(tags, m.subject, m.payload, ainsert)
                            ELSE tags
                 /\ projected' = IF starts_with_cmd_display(m.subject) \/ starts_with_tags(m.subject)
                                 THEN projected \cup {index} ELSE projected
                 /\ UNCHANGED skipped
         /\ abatch' = rest
         /\ IF rest = <<>>
            THEN AfterBatch(count)
            ELSE /\ apc' = AfterFetch
                 /\ stored' = count
                 /\ UNCHANGED <<asub, drainResult, drainSum, abatchSize, ainsert>>
    /\ UNCHANGED <<started, cursors, drainBase, acked, insertReturned,
                   insertRaised, quiet>>
    /\ UNCHANGED <<pool, rows, storeCall>>

\* await self._datastore.upsert_command(...) or apply_tag_event(...), raising
\* (the database went away after the insert and the ack): the exception leaves
\* drain with the message stored and acknowledged and no projection written.
DrainProjectRaises ==
    /\ apc = "project"
    /\ ProjectionRuns(ainsert)
    /\ LET m == messages[Head(abatch)] IN
         starts_with_cmd_display(m.subject) \/ starts_with_tags(m.subject)
    /\ apc' = "idle"
    /\ asub' = 0
    /\ abatch' = <<>>
    /\ stored' = 0
    /\ abatchSize' = 1
    /\ ainsert' = NoneRet
    /\ UNCHANGED <<started, cursors, drainResult, drainSum, drainBase, acked,
                   insertReturned, insertRaised, skipped, projected, quiet>>
    /\ UNCHANGED storeVars

----------------------------------------------------------------------------
\* replayer.py

\* None in an Optional[float] field of a MessageRecord.
Absent == 0 - 1

\* A header dictionary.
NoHeaders == [h \in {} |-> ""]

HeaderGet(headers, key) == IF key \in DOMAIN headers THEN headers[key] ELSE NoId

HeaderSet(headers, key, value) ==
    [h \in DOMAIN headers \cup {key} |-> IF h = key THEN value ELSE headers[h]]

\* headers.setdefault(key, value)
HeaderSetDefault(headers, key, value) ==
    IF key \in DOMAIN headers THEN headers ELSE HeaderSet(headers, key, value)

\* A MessageRecord as _message_from_row builds it; times are in milliseconds
\* (time_s scaled by 1000), Absent for None.
MessageRecord(id, subject, headers, cbor, recv_epoch_ms, time_s) ==
    [id |-> id, subject |-> subject, headers |-> headers, cbor |-> cbor,
     recv_epoch_ms |-> recv_epoch_ms, time_s |-> time_s]

\* (recv_epoch_ms, time_s) of the telemetry records: received together or
\* 200 ms apart, sensor time 0 or 500 ms, and one envelope without recv_epoch_ms.
TelemetryTimes == {<<0, 0>>, <<0, 500>>, <<200, 500>>, <<Absent, 500>>}

\* What the archiver stored at position id: telemetry with its dedup id, a
\* command, or a tag event published without Nats-Msg-Id.
RecordsAt(id, times) ==
    { MessageRecord(id, <<"tspi", "geocentric", "1">>,
                    HeaderSet(NoHeaders, "Nats-Msg-Id", "m" \o ToString(id)),
                    Telemetry(t[1]), t[1], t[2]) : t \in times }
    \cup { MessageRecord(id, <<"tspi", "cmd", "display", "units">>,
                         HeaderSet(NoHeaders, "Nats-Msg-Id", "c" \o ToString(id)),
                         CommandPayload("c" \o ToString(id), "imperial"), Absent, Absent),
           MessageRecord(id, TAG_BROADCAST_SUBJECT, NoHeaders,
                         TagPayload("x", "active", 1), Absent, Absent) }

Rooms == {"a", "b"}

ReplayTasks == {1, 2}

\* _subject_for_replay: player.<room>.playout.<subject.split(".", 1)[-1]>
subject_for_replay(room, message) ==
    <<"player", room, "playout">> \o
        (IF Len(message.subject) > 1 THEN Tail(message.subject) ELSE message.subject)

\* StoreReplayer._compute_delay, in milliseconds.
compute_delay(record, last_recv_ms, last_time_s) ==
    IF record.recv_epoch_ms # Absent /\ last_recv_ms # Absent
       /\ record.recv_epoch_ms - last_recv_ms > 0
    THEN record.recv_epoch_ms - last_recv_ms
    ELSE IF record.time_s # Absent /\ last_time_s # Absent
            /\ record.time_s - last_time_s > 0
    THEN record.time_s - last_time_s
    ELSE 0

\* The header rewrite of _replay done on record.headers itself, without dict().
replay_headers_in_place(room, record) ==
    LET message_id == HeaderGet(record.headers, "Nats-Msg-Id")
        rewritten == IF message_id # NoId
                     THEN HeaderSet(record.headers, "Nats-Msg-Id",
                                    message_id \o ":replay:" \o room \o ":" \o ToString(record.id))
                     ELSE record.headers
        sent == HeaderSetDefault(rewritten, "X-Replay-Origin", "datastore")
    IN [sent |-> sent, stored |-> sent]

\* The headers _replay publishes and what record.headers holds afterwards.
replay_headers(room, record) ==
    LET message_id == HeaderGet(record.headers, "Nats-Msg-Id")
        rewritten == IF message_id # NoId
                     THEN HeaderSet(record.headers, "Nats-Msg-Id",
                                    message_id \o ":replay:" \o room \o ":" \o ToString(record.id))
                     ELSE record.headers
        sent == HeaderSetDefault(rewritten, "X-Replay-Origin", "datastore")
    IN [sent |-> sent, stored |-> record.headers]

IdleTask ==
    [pc |-> "idle", room |-> "", pace |-> FALSE, lo |-> 1, hi |-> 0, idx |-> 1,
     last_recv_ms |-> Absent, last_time_s |-> Absent,
     delays |-> <<>>, sleep_calls |-> <<>>, published |-> <<>>]

\* replay_time_window: fetch_messages_between returns the records lo..hi.
ReplayTimeWindow(t, room, lo, hi, pace, limit) ==
    /\ rtask[t].pc = "idle"
    /\ replays < limit
    /\ replays' = replays + 1
    /\ rtask' = [rtask EXCEPT ![t] =
                    [IdleTask EXCEPT !.pc = IF hi < lo THEN "idle" ELSE "loop",
                                     !.room = room, !.pace = pace,
                                     !.lo = lo, !.hi = hi, !.idx = lo]]
    /\ UNCHANGED <<replayStore, brokerVars>>

\* The publish of _replay for the record at idx, and the end of the iteration.
ReplayPublishRecord(t, task) ==
    LET record == replayStore[task.idx]
        headers == replay_headers(task.room, record)
        m == Msg(subject_for_replay(task.room, record),
                 HeaderGet(headers.sent, "Nats-Msg-Id"), record.cbor)
        r == publish(messages, deduplication, m)
    IN /\ messages' = r.messages
       /\ deduplication' = r.deduplication
       /\ publishResult' = [msgid |-> m.msgid, ok |-> r.result]
       /\ replayStore' = [replayStore EXCEPT ![task.idx].headers = headers.stored]
       /\ rtask' = [rtask EXCEPT ![t] =
                       [task EXCEPT !.pc = IF task.idx = task.hi THEN "idle" ELSE "loop",
                                    !.idx = task.idx + 1,
                                    !.last_recv_ms = record.recv_epoch_ms,
                                    !.last_time_s = record.time_s,
                                    !.published = Append(@, [record |-> record.id,
                                                             subject |-> m.subject,
                                                             headers |-> headers.sent,
                                                             body |-> m.payload,
                                                             ok |-> r.result])]]
       /\ UNCHANGED <<consumers, pulled, publishCalls, broker, replays>>

\* One iteration of the loop of _replay up to its first await: the pacing
\* sleep when there is one, the publish otherwise.
ReplayNext(t) ==
    /\ rtask[t].pc = "loop"
    /\ LET task == rtask[t]
           record == replayStore[task.idx]
           delay == compute_delay(record, task.last_recv_ms, task.last_time_s)
       IN IF task.pace
          THEN IF delay > 0
               THEN /\ rtask' = [rtask EXCEPT ![t].pc = "sleep",
                                              ![t].delays = Append(@, delay),
                                              ![t].sleep_calls = Append(@, delay)]
                    /\ UNCHANGED <<replayStore, replays, brokerVars>>
               ELSE ReplayPublishRecord(t, [task EXCEPT !.delays = Append(@, delay)])
          ELSE ReplayPublishRecord(t, task)

\* The pacing sleep is over: the record is published.
ReplayWake(t) ==
    /\ rtask[t].pc = "sleep"
    /\ ReplayPublishRecord(t, rtask[t])

\* Live traffic: the message a stored record was archived from is sent again.
LiveRepublish(i) ==
    /\ i \in 1..Len(replayStore)
    /\ publishCalls < MaxLive
    /\ Publish(Msg(replayStore[i].subject, HeaderGet(replayStore[i].headers, "Nats-Msg-Id"),
                   replayStore[i].cbor))
    /\ UNCHANGED replayVars

----------------------------------------------------------------------------
\* datagrams.py, jetstream.py, producer.py

DATAGRAM_LENGTH == 37

GEOCENTRIC == 193

SPHERICAL == 194

SupportedVersion == 4

\* A datagram by what the parser reads from it: its length and header fields.
Datagram(length, type_byte, version, sensor_id, day, time_ticks) ==
    [length |-> length, type_byte |-> type_byte, version |-> version,
     sensor_id |-> sensor_id, day |-> day, time_ticks |-> time_ticks,
     status |-> 0, status_flags |-> 0, payload |-> 0]

\* The same header with other status bytes and another 26-byte body.
DatagramWith(datagram, status, status_flags, payload) ==
    [datagram EXCEPT !.status = status, !.status_flags = status_flags, !.payload = payload]

Datagrams ==
    {Datagram(length, type_byte, version, sensor_id, 1, 5000) :
        length \in {DATAGRAM_LENGTH - 1, DATAGRAM_LENGTH},
        type_byte \in {GEOCENTRIC, SPHERICAL, 0},
        version \in {SupportedVersion - 1, SupportedVersion},
        sensor_id \in {1, 2}}

\* _unpack_header raises ValueError for these.
parse_fails(datagram) ==
    \/ datagram.length # DATAGRAM_LENGTH
    \/ datagram.type_byte \notin {GEOCENTRIC, SPHERICAL}
    \/ datagram.version # SupportedVersion

\* parse_tspi_datagram of a datagram that parses.
parse_tspi_datagram(datagram) ==
    [type |-> IF datagram.type_byte = GEOCENTRIC THEN "geocentric" ELSE "spherical",
     sensor_id |-> datagram.sensor_id, day |-> datagram.day,
     time_ticks |-> datagram.time_ticks,
     status |-> datagram.status,
     status_flags |-> datagram.status + 256 * datagram.status_flags,
     payload |-> datagram.payload]

\* The three numbers written one after the other without a separator.
deduplication_id_unseparated(parsed) ==
    ToString(parsed.sensor_id) \o ToString(parsed.day) \o ToString(parsed.time_ticks)

\* ParsedTSPI.deduplication_id
deduplication_id(parsed) ==
    ToString(parsed.sensor_id) \o ":" \o ToString(parsed.day) \o ":" \o ToString(parsed.time_ticks)

\* parse_tspi_datagram(datagram).deduplication_id(), or the ValueError of the parse.
parse_and_identify(datagram) ==
    IF parse_fails(datagram) THEN [raised |-> TRUE, id |-> ""]
    ELSE [raised |-> FALSE, id |-> deduplication_id(parse_tspi_datagram(datagram))]

ParseBoth ==
    /\ ~dedupLog.called
    /\ dedupLog' = [dedupLog EXCEPT !.called = TRUE,
                                    !.first = parse_and_identify(dedupLog.a),
                                    !.second = parse_and_identify(dedupLog.b)]

\* build_subject with the "tspi" prefix
build_subject(parsed) == <<"tspi", parsed.type, ToString(parsed.sensor_id)>>

\* message_headers
message_headers(parsed) == HeaderSet(NoHeaders, "Nats-Msg-Id", deduplication_id(parsed))

\* _encode_payload; time_s is kept in the datagram's ticks of 1/10000 s.
encode_payload(parsed, recv_time) ==
    [type |-> parsed.type, sensor_id |-> parsed.sensor_id, day |-> parsed.day,
     time_s |-> parsed.time_ticks, recv_epoch_ms |-> recv_time * 1000]

NoAllowList == [configured |-> FALSE, sensors |-> {}]

AllowList(sensors) == [configured |-> TRUE, sensors |-> sensors]

\* What ingest hands back: a payload, None, or the ValueError of the parser.
ReturnedNone == [kind |-> "None"]

Raised == [kind |-> "ValueError"]

Returned(payload) == [kind |-> "payload", payload |-> payload]

\* _prepare_message with the allow-list test left out.
prepare_message_unfiltered(allow, datagram, recv_time) ==
    LET parsed == parse_tspi_datagram(datagram) IN
    [subject |-> build_subject(parsed), headers |-> message_headers(parsed),
     payload |-> encode_payload(parsed, recv_time)]

\* _prepare_message of a datagram that parses, None standing for "filtered".
prepare_message(allow, datagram, recv_time) ==
    LET parsed == parse_tspi_datagram(datagram) IN
    IF allow.configured /\ parsed.sensor_id \notin allow.sensors
    THEN None
    ELSE [subject |-> build_subject(parsed), headers |-> message_headers(parsed),
          payload |-> encode_payload(parsed, recv_time)]

\* The outcome of one call: what it returned, the messages it handed to the
\* publisher's publish, the broker publishes that ran, the coroutines left over.
Outcome(ret, calls, execs, left) ==
    [ret |-> ret, calls |-> calls, execs |-> execs, unawaited |-> left]

\* TSPIProducer.ingest.  The parser's ValueError is not caught.  A synchronous
\* publish runs the broker publish at the call; an asynchronous one
\* (JetStreamPublisher.publish) only creates a coroutine, which ingest drops.
ingest(allow, kind, datagram, recv_time) ==
    IF parse_fails(datagram)
    THEN Outcome(Raised, <<>>, <<>>, 0)
    ELSE LET message == prepare_message(allow, datagram, recv_time) IN
         IF message = None
         THEN Outcome(ReturnedNone, <<>>, <<>>, 0)
         ELSE IF kind = "sync"
         THEN Outcome(Returned(message.payload), <<message>>, <<message>>, 0)
         ELSE Outcome(Returned(message.payload), <<message>>, <<>>, 1)

\* TSPIProducer.ingest_async: an awaitable result of publish is awaited.
ingest_async(allow, kind, datagram, recv_time) ==
    IF parse_fails(datagram)
    THEN Outcome(Raised, <<>>, <<>>, 0)
    ELSE LET message == prepare_message(allow, datagram, recv_time) IN
         IF message = None
         THEN Outcome(ReturnedNone, <<>>, <<>>, 0)
         ELSE Outcome(Returned(message.payload), <<message>>, <<message>>, 0)

IngestCall(api, datagram, r) ==
    /\ ingestCalls < MaxIngest
    /\ ingestCalls' = ingestCalls + 1
    /\ publishExecs' = publishExecs \o r.execs
    /\ unawaited' = unawaited + r.unawaited
    /\ ingestLog' = [api |-> api, datagram |-> datagram, ret |-> r.ret,
                     calls |-> r.calls, execs |-> r.execs, unawaited |-> r.unawaited]
    /\ UNCHANGED <<allowed_sensors, publisherKind>>

Ingest(datagram) ==
    IngestCall("ingest", datagram, ingest(allowed_sensors, publisherKind, datagram, 1))

IngestAsync(datagram) ==
    IngestCall("ingest_async", datagram,
               ingest_async(allowed_sensors, publisherKind, datagram, 1))

----------------------------------------------------------------------------
\* commands.py, tags.py

OPS_CONTROL_SUBJECT == <<"tspi", "ops", "ctrl">>

\* str.lower() on the inputs of the model.
lower(text) == IF text = "Imperial" THEN "imperial" ELSE text

\* What a sender call comes to: how it ended and what it handed to publish.
Sent(result, handed) == [result |-> result, handed |-> handed]

\* CommandSender._publish / the publish tail of the other senders: a publish
\* that returns False becomes a RuntimeError.
publish_or_raise(subject, body, accepted) ==
    Sent(IF accepted THEN "ok" ELSE "RuntimeError",
         <<[subject |-> subject, body |-> body, returned |-> accepted]>>)

\* CommandSender.send_units
send_units(units, accepted) ==
    IF lower(units) \notin {"metric", "imperial"}
    THEN Sent("ValueError", <<>>)
    ELSE publish_or_raise(COMMAND_SUBJECT_PREFIX \o <<"units">>,
                          [name |-> "display.units", val |-> lower(units)], accepted)

\* CommandSender.send_marker_color: the emptiness test comes before the strip.
send_marker_color(color, accepted) ==
    IF color = ""
    THEN Sent("ValueError", <<>>)
    ELSE publish_or_raise(COMMAND_SUBJECT_PREFIX \o <<"marker_color">>,
                          [name |-> "display.marker_color", val |-> strip(color)], accepted)

\* CommandSender.send_session_metadata
send_session_metadata(name, identifier, accepted) ==
    IF strip(name) = "" THEN Sent("ValueError", <<>>)
    ELSE IF strip(identifier) = "" THEN Sent("ValueError", <<>>)
    ELSE publish_or_raise(COMMAND_SUBJECT_PREFIX \o <<"session_metadata">>,
                          [name |-> "display.session_metadata",
                           val |-> <<strip(name), strip(identifier)>>], accepted)

\* TagSender.create_tag
create_tag(comment, accepted) ==
    IF strip(comment) = ""
    THEN Sent("ValueError", <<>>)
    ELSE publish_or_raise(TAG_BROADCAST_SUBJECT,
                          [name |-> "tag", val |-> strip(comment)], accepted)

SenderCall(op, args, r) ==
    /\ sendCalls < MaxSends
    /\ sendCalls' = sendCalls + 1
    /\ sendLog' = [op |-> op, args |-> args, result |-> r.result, handed |-> r.handed]

SendUnits(units, accepted) ==
    /\ SenderCall("send_units", <<units>>, send_units(units, accepted))
    /\ UNCHANGED <<opsActive, opsHistory>>

SendMarkerColor(color, accepted) ==
    /\ SenderCall("send_marker_color", <<color>>, send_marker_color(color, accepted))
    /\ UNCHANGED <<opsActive, opsHistory>>

SendSessionMetadata(name, identifier, accepted) ==
    /\ SenderCall("send_session_metadata", <<name, identifier>>,
                  send_session_metadata(name, identifier, accepted))
    /\ UNCHANGED <<opsActive, opsHistory>>

CreateTag(comment, accepted) ==
    /\ SenderCall("create_tag", <<comment>>, create_tag(comment, accepted))
    /\ UNCHANGED <<opsActive, opsHistory>>

OpsIdentifiers == {"2025-09-28T11:00:00Z", "Intercept Window 3"}

\* OpsControlSender.start_group_replay: the channel becomes the active one
\* after the publish went through.
ops_start_group_replay(active, identifier, accepted) ==
    LET channel_id == group_replay_channel(identifier).channel_id
        sent == publish_or_raise(OPS_CONTROL_SUBJECT,
                                 [name |-> "GroupReplayStart", val |-> channel_id], accepted)
    IN [active |-> IF accepted THEN channel_id ELSE active, sent |-> sent,
        channel |-> channel_id]

\* stop_group_replay forgetting the active channel before it publishes.
ops_stop_group_replay_forgets_first(active, channel_id, accepted) ==
    LET resolved == IF channel_id # None THEN channel_id ELSE active IN
    IF resolved = None
    THEN [active |-> active, sent |-> Sent("ValueError", <<>>), channel |-> None]
    ELSE [active |-> IF active = resolved THEN None ELSE active,
          sent |-> publish_or_raise(OPS_CONTROL_SUBJECT,
                                    [name |-> "GroupReplayStop", val |-> resolved], accepted),
          channel |-> resolved]

\* OpsControlSender.stop_group_replay; channel_id None stands for the omitted
\* argument.
ops_stop_group_replay(active, channel_id, accepted) ==
    LET resolved == IF channel_id # None THEN channel_id ELSE active IN
    IF resolved = None
    THEN [active |-> active, sent |-> Sent("ValueError", <<>>), channel |-> None]
    ELSE [active |-> IF accepted /\ active = resolved THEN None ELSE active,
          sent |-> publish_or_raise(OPS_CONTROL_SUBJECT,
                                    [name |-> "GroupReplayStop", val |-> resolved], accepted),
          channel |-> resolved]

OpsCall(op, arg, r) ==
    /\ SenderCall(op, <<arg>>, r.sent)
    /\ opsActive' = r.active
    /\ opsHistory' = IF r.sent.result = "ok"
                     THEN Append(opsHistory, [op |-> op, channel |-> r.channel])
                     ELSE opsHistory

OpsStartGroupReplay(identifier, accepted) ==
    OpsCall("start_group_replay", identifier,
            ops_start_group_replay(opsActive, identifier, accepted))

OpsStopGroupReplay(channel_id, accepted) ==
    OpsCall("stop_group_replay", channel_id,
            ops_stop_group_replay(opsActive, channel_id, accepted))

----------------------------------------------------------------------------
\* jetstream_client.py

SubjectTokens == {"a", "b", ">"}

RECURSIVE TokenLists(_, _)
TokenLists(tokens, n) ==
    IF n = 0 THEN {<<>>}
    ELSE {Append(l, t) : l \in TokenLists(tokens, n - 1), t \in tokens}

\* Subjects of one to n tokens: split(".") never gives an empty list.
SubjectsUpTo(tokens, n) == UNION {TokenLists(tokens, k) : k \in 1..n}

RECURSIVE SubjectLists(_, _)
SubjectLists(subjects, n) ==
    IF n = 0 THEN {<<>>}
    ELSE {Append(l, x) : l \in SubjectLists(subjects, n - 1), x \in subjects}

\* tail_prefix of an entry: set only when the last token is ">"; it may be empty.
tail_prefix(tokens) ==
    IF Len(tokens) > 0 /\ tokens[Len(tokens)] = ">"
    THEN [set |-> TRUE, prefix |-> SubSeq(tokens, 1, Len(tokens) - 1)]
    ELSE [set |-> FALSE, prefix |-> <<>>]

\* The inner loop of normalize_stream_subjects, looking at earlier entries only.
covered_by_earlier(subjects, index) ==
    \E other_index \in 1..Len(subjects) :
        /\ other_index < index
        /\ tail_prefix(subjects[other_index]).set
        /\ Len(subjects[index]) >= Len(tail_prefix(subjects[other_index]).prefix)
        /\ SubSeq(subjects[index], 1, Len(tail_prefix(subjects[other_index]).prefix))
             = tail_prefix(subjects[other_index]).prefix

\* The inner loop of normalize_stream_subjects: some other entry ends in ">"
\* and its tokens before the ">" are the leading tokens of this entry.
covered(subjects, index) ==
    \E other_index \in 1..Len(subjects) :
        /\ other_index # index
        /\ tail_prefix(subjects[other_index]).set
        /\ Len(subjects[index]) >= Len(tail_prefix(subjects[other_index]).prefix)
        /\ SubSeq(subjects[index], 1, Len(tail_prefix(subjects[other_index]).prefix))
             = tail_prefix(subjects[other_index]).prefix

\* The outer loop of normalize_stream_subjects, from entry index onwards.
RECURSIVE normalize_from(_, _, _)
normalize_from(subjects, index, normalized) ==
    IF index > Len(subjects) THEN normalized
    ELSE normalize_from(subjects, index + 1,
                        IF covered(subjects, index) THEN normalized
                        ELSE Append(normalized, subjects[index]))

normalize_stream_subjects(subjects) == normalize_from(subjects, 1, <<>>)

NormalizeStreamSubjects(subjects) ==
    /\ normalizeLog' = [called |-> TRUE, subjects |-> subjects,
                        ret |-> normalize_stream_subjects(subjects)]
    /\ UNCHANGED matchLog

\* jetstream_sim.py: one call of _match_subject
MatchSubject(subject, pattern) ==
    /\ matchLog' = [called |-> TRUE, subject |-> subject, pattern |-> pattern,
                    ret |-> match_subject(subject, pattern)]
    /\ UNCHANGED normalizeLog

----------------------------------------------------------------------------
\* ui/command_console.py

\* The client ids, states and channel ids status payloads carry; "" stands for
\* a missing key as well.
StatusClients == ClientNames \cup {"bob"}

StatusStates == {"", "FOLLOWING_LIVESTREAM", "FOLLOWING_GROUP_REPLAY"}

StatusChannels == {"", "livestream"}

\* The ts of a payload: an instant, or Absent when the key is missing or unparsable.
StatusTimes == {Absent} \cup 1..MaxTs

StatusPayload(client_id, ts, state, channel_id, override) ==
    [client_id |-> client_id, ts |-> ts, state |-> state, channel_id |-> channel_id,
     override |-> override]

\* _parse_timestamp: datetime.now() when there is nothing to parse.
parse_timestamp(value) == IF value = Absent THEN NowTs ELSE value

\* _choose_first with one candidate: the stripped text, "" for None.
choose_first(value) == strip(value)

ClientPresence(client_id, channel_id, state, connection_ts, last_seen_ts) ==
    [client_id |-> client_id, channel_id |-> channel_id, state |-> state,
     connection_ts |-> connection_ts, last_seen_ts |-> last_seen_ts]

\* ClientPresenceTracker._derive_state_events
derive_state_events(previous, updated, override) ==
    IF previous.state = updated.state THEN <<>>
    ELSE IF updated.state = "FOLLOWING_GROUP_REPLAY" THEN <<"started replay">>
    ELSE IF updated.state = "FOLLOWING_LIVESTREAM"
    THEN IF override THEN <<"initiated live override">> ELSE <<"resumed live view">>
    ELSE <<>>

\* process_payload taking connection_ts from every payload.
process_payload_reconnecting(table, order, payload) ==
    LET client_id == choose_first(payload.client_id)
        timestamp == parse_timestamp(payload.ts)
        known == client_id \in DOMAIN table
        previous == IF known THEN table[client_id]
                    ELSE ClientPresence(client_id, payload.channel_id, payload.state,
                                        timestamp, timestamp)
        updated == [previous EXCEPT
                       !.channel_id = IF payload.channel_id # "" THEN payload.channel_id ELSE @,
                       !.state = IF payload.state # "" THEN payload.state ELSE @,
                       !.connection_ts = timestamp,
                       !.last_seen_ts = timestamp]
    IN IF client_id = ""
       THEN [clients |-> table, order |-> order, presence |-> None, events |-> <<>>]
       ELSE [clients |-> [c \in DOMAIN table \cup {client_id} |->
                            IF c = client_id THEN updated ELSE table[c]],
             order |-> IF known THEN order ELSE Append(order, client_id),
             presence |-> updated,
             events |-> (IF known THEN <<>> ELSE <<"New client connected">>)
                        \o derive_state_events(previous, updated, payload.override)]

\* ClientPresenceTracker.process_payload: the new _clients and _order and the
\* returned presence and events.
process_payload(table, order, payload) ==
    LET client_id == choose_first(payload.client_id)
        timestamp == parse_timestamp(payload.ts)
        known == client_id \in DOMAIN table
        previous == IF known THEN table[client_id]
                    ELSE ClientPresence(client_id, payload.channel_id, payload.state,
                                        timestamp, timestamp)
        updated == [previous EXCEPT
                       !.channel_id = IF payload.channel_id # "" THEN payload.channel_id ELSE @,
                       !.state = IF payload.state # "" THEN payload.state ELSE @,
                       !.last_seen_ts = timestamp]
    IN IF client_id = ""
       THEN [clients |-> table, order |-> order, presence |-> None, events |-> <<>>]
       ELSE [clients |-> [c \in DOMAIN table \cup {client_id} |->
                            IF c = client_id THEN updated ELSE table[c]],
             order |-> IF known THEN order ELSE Append(order, client_id),
             presence |-> updated,
             events |-> (IF known THEN <<>> ELSE <<"New client connected">>)
                        \o derive_state_events(previous, updated, payload.override)]

CountOf(events, message) == Cardinality({i \in 1..Len(events) : events[i] = message})

ProcessPayload(payload) ==
    /\ pcalls < MaxStatus
    /\ pcalls' = pcalls + 1
    /\ LET r == process_payload(pclients, porder, payload)
           client_id == choose_first(payload.client_id) IN
         /\ pclients' = r.clients
         /\ porder' = r.order
         /\ pret' = [presence |-> r.presence, events |-> r.events]
         /\ firstTs' = IF client_id = "" \/ client_id \in DOMAIN firstTs
                       THEN firstTs
                       ELSE [c \in DOMAIN firstTs \cup {client_id} |->
                               IF c = client_id THEN payload.ts ELSE firstTs[c]]
         /\ connectedEvents' =
               IF client_id = "" THEN connectedEvents
               ELSE [c \in DOMAIN connectedEvents \cup {client_id} |->
                       (IF c \in DOMAIN connectedEvents THEN connectedEvents[c] ELSE 0)
                       + (IF c = client_id THEN CountOf(r.events, "New client connected") ELSE 0)]

----------------------------------------------------------------------------
\* PlayerMetrics of ui/player.py: the calls of the PlayerState together with
\* what they write to _metrics and emit on metrics_updated

\* _emit_metrics when it emits: lag and timeline are computed now, source and
\* position are the fields as they stand (source is assigned together with
\* _current_channel).  "at" is the engine state at this moment; the pending
\* count of the active receiver's consumer is the number of undelivered
\* messages.
emit_metrics(field_position, cursor, line, channel, undelivered) ==
    [position |-> field_position, timeline |-> Len(line), source |-> channel,
     lag |-> Len(undelivered),
     at |-> [position |-> cursor, timeline |-> Len(line), source |-> channel,
             lag |-> Len(undelivered)]]

\* The record emitted at the end of a call, from the state the call leaves.
emit_after(field_position) ==
    emit_metrics(field_position, position', timeline', currentChannel', feed')

MetricsStart ==
    /\ Start
    /\ metricsPosition' = metricsPosition
    /\ metricsEmitted' = <<emit_after(metricsPosition)>>

MetricsPause ==
    /\ Pause
    /\ metricsPosition' = metricsPosition
    /\ metricsEmitted' = <<>>

\* preload emits when it appended something; it does not touch _metrics.position.
MetricsPreload(batch) ==
    /\ Preload(batch)
    /\ metricsPosition' = metricsPosition
    /\ metricsEmitted' =
          IF opResult' = "ok" /\ preload_filter(SubSeq(feed, 1, Len(feed) - Len(feed'))) # <<>>
          THEN <<emit_after(metricsPosition)>> ELSE <<>>

\* seek writes _metrics.position when the position changed, and always emits.
MetricsSeek(target) ==
    /\ Seek(target)
    /\ metricsPosition' = IF position' # position THEN position' ELSE metricsPosition
    /\ metricsEmitted' = <<emit_after(metricsPosition')>>

MetricsScrubToIndex(index) ==
    /\ ScrubToIndex(index)
    /\ metricsPosition' = position'
    /\ metricsEmitted' = <<emit_after(metricsPosition')>>

\* seek_to_tag: the direct jump writes the field and emits; the lookup by
\* timestamp goes through seek; a False return emits nothing.
MetricsSeekToTag(tag_id) ==
    /\ SeekToTag(tag_id)
    /\ IF opResult' # "True"
       THEN metricsPosition' = metricsPosition /\ metricsEmitted' = <<>>
       ELSE /\ metricsPosition' = IF tag_hits(timeline, tag_id) # {} \/ position' # position
                                  THEN position' ELSE metricsPosition
            /\ metricsEmitted' = <<emit_after(metricsPosition')>>

\* set_channel writes _metrics.source and _metrics.frames and emits, when it
\* switches.
MetricsSetChannel(channel) ==
    /\ SetChannel(channel)
    /\ metricsPosition' = metricsPosition
    /\ metricsEmitted' = IF currentChannel' # currentChannel
                         THEN <<emit_after(metricsPosition)>> ELSE <<>>

\* _tick: the preload it calls at the end of the timeline emits as above; a
\* step then writes _metrics.position and emits when metrics_interval has
\* passed since the latest emission.
MetricsStepOnce ==
    /\ StepOnce
    /\ LET r == preload(DEFAULT_PRELOAD_BATCH)
           inner == IF /\ position >= Len(timeline) /\ feed # <<>>
                       /\ ~r.raised /\ preload_filter(r.fetched) # <<>>
                    THEN <<emit_metrics(metricsPosition, r.position, r.timeline,
                                        currentChannel, r.feed)>>
                    ELSE <<>>
       IN IF frames' = frames
          THEN metricsPosition' = metricsPosition /\ metricsEmitted' = inner
          ELSE /\ metricsPosition' = position'
               /\ \E due \in BOOLEAN :
                     metricsEmitted' = inner \o (IF due THEN <<emit_after(position')>>
                                                 ELSE <<>>)

----------------------------------------------------------------------------
\* HeadlessPlayerRunner of ui/player.py, without duration and exit_on_idle

\* buffer_size counting the whole timeline.
buffer_size_whole_timeline(line, pos) == Len(line)

\* PlayerState.buffer_size
buffer_size(line, pos) == Max(0, Len(line) - pos)

\* run() up to its loop: self._state.start()
RunStart ==
    /\ runPc = "created"
    /\ Start
    /\ runPc' = "loop"
    /\ UNCHANGED <<runFetched, runApplied>>

\* One turn of the loop of run(): step_once, then the tests that end the
\* loop.  A ValidationError out of step_once ends run().
RunTurn ==
    /\ runPc = "loop"
    /\ IF playing THEN StepOnce ELSE UNCHANGED playerVars
    /\ runFetched' = runFetched
                       \o preload_filter(SubSeq(feed, 1, Len(feed) - Len(feed')))
    /\ runApplied' = IF frames' = frames THEN runApplied
                     ELSE Append(runApplied, timeline'[position'])
    /\ runPc' = IF playing /\ opResult' = "ValidationError" THEN "raised"
                ELSE IF ~playing' /\ buffer_size(timeline', position') = 0 THEN "returned"
                ELSE "loop"

----------------------------------------------------------------------------
\* receiver.py and connect_in_memory of ui/player.py

\* The subjects of "livestream" in the default subject map.
LivestreamSubjects ==
    <<<<"tspi", ">">>, COMMAND_SUBJECT_PREFIX \o <<">">>, TAG_BROADCAST_SUBJECT>>

\* InMemoryConsumer.__init__
NewConsumer(subject_filter) == [filter |-> subject_filter, cursor |-> 0, delivered |-> 0]

\* recv_epoch_ms / 1000.0 of a wall clock: seconds since 1970, beyond every
\* value the _sequence counter takes.
EpochSeconds == 1000

\* CompositeTSPIReceiver._extract_timestamp: only telemetry carries
\* recv_epoch_ms or recv_iso.
extract_timestamp(message) ==
    IF message.k = "tele" THEN EpochSeconds + message.ts ELSE Absent

\* The loop over the receivers in CompositeTSPIReceiver.fetch: every receiver
\* pulls its own batch, every message gets the next sequence number.
RECURSIVE composite_collect(_, _, _, _, _, _)
composite_collect(stream, cons, i, sequence, annotated, batch) ==
    IF i > Len(cons)
    THEN [consumers |-> cons, sequence |-> sequence, annotated |-> annotated]
    ELSE LET r == pull_loop(stream, cons[i].filter, cons[i].cursor, <<>>, batch)
             entries ==
                 {[key |-> IF extract_timestamp(stream[r.got[j]].payload) # Absent
                           THEN extract_timestamp(stream[r.got[j]].payload)
                           ELSE sequence + j - 1,
                   seq |-> sequence + j - 1,
                   index |-> r.got[j]] : j \in 1..Len(r.got)}
         IN composite_collect(stream,
                              [cons EXCEPT ![i].cursor = r.cursor,
                                           ![i].delivered = @ + Len(r.got)],
                              i + 1, sequence + Len(r.got), annotated \cup entries, batch)

\* annotated.sort(key=lambda item: (item[0], item[1]))
RECURSIVE sort_annotated(_)
sort_annotated(annotated) ==
    IF annotated = {} THEN <<>>
    ELSE LET first == CHOOSE e \in annotated :
                         \A o \in annotated :
                             \/ e.key < o.key
                             \/ e.key = o.key /\ e.seq <= o.seq
         IN <<first.index>> \o sort_annotated(annotated \ {first})

\* CompositeTSPIReceiver.fetch
composite_fetch(stream, cons, sequence, batch) ==
    LET r == composite_collect(stream, cons, 1, sequence, {}, batch) IN
        [consumers |-> r.consumers, sequence |-> r.sequence,
         fetched |-> sort_annotated(r.annotated)]

\* PlayerState.preload on the livestream channel, for a player that has not
\* been stepped (its position and sideband cursor are 0 and stay 0); the
\* stream holds valid payloads only, so the filter loop keeps them all.
LivePreload(batch) ==
    LET r == composite_fetch(messages, liveConsumers, liveSequence, batch)
        extended == liveTimeline \o r.fetched
        drop == IF Len(extended) > historyLimit THEN Len(extended) - historyLimit ELSE 0
    IN /\ liveConsumers' = r.consumers
       /\ liveSequence' = r.sequence
       /\ liveTimeline' = SubSeq(extended, drop + 1, Len(extended))
       /\ liveEntered' = liveEntered \o r.fetched

----------------------------------------------------------------------------
\* udp_ingest.py

\* datagram_received: a task for _ingest is created and put into _pending; it
\* has not run yet.
DatagramReceived ==
    /\ Len(udpTasks) < MaxDatagrams
    /\ udpTasks' = Append(udpTasks, "created")
    /\ udpPending' = udpPending \cup {Len(udpTasks) + 1}
    /\ UNCHANGED udpDrain

\* The loop runs a created task: _ingest awaits ingest_async, which suspends
\* at the publish of an asynchronous publisher.
IngestSuspends(task) ==
    /\ task \in 1..Len(udpTasks)
    /\ udpTasks[task] = "created"
    /\ udpTasks' = [udpTasks EXCEPT ![task] = "suspended"]
    /\ UNCHANGED <<udpPending, udpDrain>>

\* The task runs to its end (at once when nothing suspends it, as with a
\* synchronous publisher or a filtered datagram); its done callback discards
\* it from _pending.
IngestFinishes(task) ==
    /\ task \in 1..Len(udpTasks)
    /\ udpTasks[task] \in {"created", "suspended"}
    /\ udpTasks' = [udpTasks EXCEPT ![task] = "done"]
    /\ udpPending' = udpPending \ {task}
    /\ UNCHANGED udpDrain

DrainIdle == [pc |-> "idle", awaited |-> {}]

\* drain() up to its await: returns at once when _pending is empty, else
\* gathers the tasks that are in _pending now.
DrainBegins ==
    /\ udpDrain.pc # "gather"
    /\ udpDrain' = IF udpPending = {} THEN [pc |-> "returned", awaited |-> {}]
                   ELSE [pc |-> "gather", awaited |-> udpPending]
    /\ UNCHANGED <<udpTasks, udpPending>>

\* The gather is done when every task it was given is done; drain() then
\* clears _pending and returns.
DrainResumes ==
    /\ udpDrain.pc = "gather"
    /\ \A task \in udpDrain.awaited : udpTasks[task] = "done"
    /\ udpPending' = {}
    /\ udpDrain' = [pc |-> "returned", awaited |-> {}]
    /\ UNCHANGED udpTasks

----------------------------------------------------------------------------
\* Specifications

InitBroker ==
    /\ messages = <<>>
    /\ deduplication = {}
    /\ consumers = [c \in ConsumerIds |-> NoConsumer]
    /\ pulled = [c \in ConsumerIds |-> <<>>]
    /\ publishCalls = 0
    /\ publishResult = [msgid |-> NoId, ok |-> TRUE]

InitArchiver ==
    /\ started = FALSE
    /\ cursors = [i \in 1..NumSubscriptions |-> 0]
    /\ apc = "idle"
    /\ asub = 0
    /\ abatch = <<>>
    /\ abatchSize = 1
    /\ stored = 0
    /\ ainsert = NoneRet
    /\ drainResult = 0 - 1
    /\ drainSum = 0
    /\ drainBase = 0
    /\ acked = {}
    /\ insertReturned = {}
    /\ insertRaised = {}
    /\ skipped = {}
    /\ projected = {}
    /\ quiet = FALSE

InitStore ==
    /\ pool = FALSE
    /\ rows = <<>>
    /\ commands = EmptyTable
    /\ tags = EmptyTable
    /\ storeCall = [subject |-> <<>>, ret |-> NoneRet, before |-> 0]

InitChannels ==
    /\ channels = [c \in {LivestreamId} |-> live_channel]
    /\ activeGroup = None
    /\ chanRet = [op |-> "", arg |-> None, ret |-> None]
    /\ chanCalls = 0
    /\ startOrder = <<>>

InitPlayerWith(scrub_history_size) ==
    /\ feed = <<>>
    /\ arrivals = 0
    /\ timeline = <<>>
    /\ position = 0
    /\ playing = FALSE
    /\ sidebandCursor = 0
    /\ displayUnits = default_units
    /\ markerColor = default_marker_color
    /\ playerTags = EmptyTable
    /\ emitted = <<>>
    /\ lastOp = ""
    /\ prevPosition = 0
    /\ continuous = TRUE
    /\ historyLimit = Max(1, scrub_history_size)
    /\ currentChannel = "livestream"
    /\ parked = <<>>
    /\ frames = 0
    /\ opResult = "ok"
    /\ lastArg = ""

InitPlayer == InitPlayerWith(HistoryLimit)

InitReplay ==
    /\ replayStore = <<>>
    /\ rtask = [t \in ReplayTasks |-> IdleTask]
    /\ replays = 0

InitPresence ==
    /\ pclients = EmptyTable
    /\ porder = <<>>
    /\ pret = [presence |-> None, events |-> <<>>]
    /\ pcalls = 0
    /\ firstTs = EmptyTable
    /\ connectedEvents = EmptyTable

InitProducerWith(allow, kind) ==
    /\ allowed_sensors = allow
    /\ publisherKind = kind
    /\ publishExecs = <<>>
    /\ unawaited = 0
    /\ ingestCalls = 0
    /\ ingestLog = [api |-> "", datagram |-> None, ret |-> ReturnedNone,
                    calls |-> <<>>, execs |-> <<>>, unawaited |-> 0]

InitProducer == InitProducerWith(NoAllowList, "sync")

InitSubjects ==
    /\ normalizeLog = [called |-> FALSE, subjects |-> <<>>, ret |-> <<>>]
    /\ matchLog = [called |-> FALSE, subject |-> <<>>, pattern |-> <<>>, ret |-> FALSE]

InitSenders ==
    /\ sendLog = [op |-> "", args |-> <<>>, result |-> "ok", handed |-> <<>>]
    /\ opsActive = None
    /\ opsHistory = <<>>
    /\ sendCalls = 0

NotParsed == [raised |-> FALSE, id |-> ""]

InitDedupWith(a, b) ==
    dedupLog = [called |-> FALSE, a |-> a, b |-> b, first |-> NotParsed, second |-> NotParsed]

\* The player was built on the channel before anything was published:
\* the receiver factory created one consumer per subject.
InitLive ==
    /\ liveConsumers = [i \in 1..Len(LivestreamSubjects) |-> NewConsumer(LivestreamSubjects[i])]
    /\ liveSequence = 0
    /\ liveTimeline = <<>>
    /\ liveEntered = <<>>

InitUdp ==
    /\ udpTasks = <<>>
    /\ udpPending = {}
    /\ udpDrain = DrainIdle

InitRun ==
    /\ runPc = "created"
    /\ runFetched = <<>>
    /\ runApplied = <<>>

InitMetrics ==
    /\ metricsPosition = 0
    /\ metricsEmitted = <<>>

InitRest ==
    /\ InitLive
    /\ InitUdp
    /\ InitRun
    /\ InitMetrics
    /\ InitDedupWith(Datagram(DATAGRAM_LENGTH, GEOCENTRIC, SupportedVersion, 1, 1, 5000),
                     Datagram(DATAGRAM_LENGTH, GEOCENTRIC, SupportedVersion, 1, 1, 5000))

InitMore ==
    /\ InitSubjects
    /\ InitSenders
    /\ InitRest

InitExt ==
    /\ InitReplay
    /\ InitPresence
    /\ InitProducer
    /\ InitMore

\* The in-memory broker with its pull consumers.
Init ==
    /\ InitBroker /\ broker = "InMemoryJetStream"
    /\ InitArchiver
    /\ InitStore
    /\ InitChannels
    /\ InitPlayer
    /\ InitExt

Next ==
    \/ \E m \in PubInputs : Publish(m) /\ UNCHANGED <<archVars, storeVars, chanVars, playerVars, extVars>>
    \/ \E c \in ConsumerIds, f \in ConsumerFilters :
          create_consumer(c, f) /\ UNCHANGED <<archVars, storeVars, chanVars, playerVars, extVars>>
    \/ \E c \in ConsumerIds, n \in 1..MaxBatch :
          pull(c, n) /\ UNCHANGED <<archVars, storeVars, chanVars, playerVars, extVars>>

Spec == Init /\ [][Next]_vars

\* The archiver draining a broker into the store, without faults.
InitArch ==
    /\ InitBroker /\ broker \in {"InMemoryJetStream", "_FakeJetStream"}
    /\ InitArchiver
    /\ InitStore
    /\ InitChannels
    /\ InitPlayer
    /\ InitExt

\* A publisher task running between two awaits of the archiver.
ArchPublish(m) ==
    /\ Publish(m)
    /\ quiet' = FALSE
    /\ UNCHANGED <<started, cursors, apc, asub, abatch, abatchSize, stored, ainsert,
                   drainResult, drainSum, drainBase, acked, insertReturned, insertRaised,
                   skipped, projected>>
    /\ UNCHANGED <<storeVars, chanVars, playerVars, extVars>>

NextArch ==
    \/ \E m \in ArchInputs : ArchPublish(m)
    \/ \E n \in 1..MaxBatch : DrainStart(n) /\ UNCHANGED <<brokerVars, chanVars, playerVars, extVars>>
    \/ DrainFetch /\ UNCHANGED <<brokerVars, chanVars, playerVars, extVars>>
    \/ DrainInsert /\ UNCHANGED <<brokerVars, chanVars, playerVars, extVars>>
    \/ DrainAck /\ UNCHANGED <<brokerVars, chanVars, playerVars, extVars>>
    \/ DrainProject /\ UNCHANGED <<brokerVars, chanVars, playerVars, extVars>>

SpecArch == InitArch /\ [][NextArch]_vars

\* The same, with insert_message allowed to raise.
NextArchFaults ==
    \/ \E m \in FaultInputs : ArchPublish(m)
    \/ \E n \in 1..MaxBatch : DrainStart(n) /\ UNCHANGED <<brokerVars, chanVars, playerVars, extVars>>
    \/ DrainFetch /\ UNCHANGED <<brokerVars, chanVars, playerVars, extVars>>
    \/ DrainInsert /\ UNCHANGED <<brokerVars, chanVars, playerVars, extVars>>
    \/ DrainInsertRaises /\ UNCHANGED <<brokerVars, chanVars, playerVars, extVars>>
    \/ DrainAck /\ UNCHANGED <<brokerVars, chanVars, playerVars, extVars>>
    \/ DrainProject /\ UNCHANGED <<brokerVars, chanVars, playerVars, extVars>>

SpecArchFaults == InitArch /\ [][NextArchFaults]_vars

OtherThanArch == <<brokerVars, chanVars, playerVars, extVars>>

\* A command and a tag event, the two kinds of message that have a projection.
ProjectedInputs ==
    { Msg(<<"cmd", "display", "units">>, "c2", CommandPayload("c2", "imperial")),
      Msg(TAG_BROADCAST_SUBJECT, "g1", TagPayload("x", "active", 1)) }

\* The archiver with a projection allowed to raise.
NextArchProjectFaults ==
    \/ \E m \in ProjectedInputs : ArchPublish(m)
    \/ \E n \in 1..MaxBatch : DrainStart(n) /\ UNCHANGED OtherThanArch
    \/ DrainFetch /\ UNCHANGED OtherThanArch
    \/ DrainInsert /\ UNCHANGED OtherThanArch
    \/ DrainAck /\ UNCHANGED OtherThanArch
    \/ DrainProject /\ UNCHANGED OtherThanArch
    \/ DrainProjectRaises /\ UNCHANGED OtherThanArch

SpecArchProjectFaults == InitArch /\ [][NextArchProjectFaults]_vars

\* drain keeps being called, and every call of it that does not raise goes on.
SpecArchProjectFaultsFair ==
    /\ SpecArchProjectFaults
    /\ WF_vars(\E n \in 1..MaxBatch : DrainStart(n) /\ UNCHANGED OtherThanArch)
    /\ WF_vars(DrainFetch /\ UNCHANGED OtherThanArch)
    /\ WF_vars(DrainInsert /\ UNCHANGED OtherThanArch)
    /\ WF_vars(DrainAck /\ UNCHANGED OtherThanArch)
    /\ WF_vars(DrainProject /\ UNCHANGED OtherThanArch)

\* Clients calling the datastore directly, connected or not.
NextStore ==
    \/ connect /\ UNCHANGED <<brokerVars, archVars, chanVars, playerVars, extVars>>
    \/ close /\ UNCHANGED <<brokerVars, archVars, chanVars, playerVars, extVars>>
    \/ \E m \in PubInputs, kind \in {"telemetry", "command", "tag"} :
          InsertMessage(m, kind) /\ UNCHANGED <<brokerVars, archVars, chanVars, playerVars, extVars>>

SpecStore == Init /\ [][NextStore]_vars

\* Tag events applied to the store one after the other.
TagSubjects == {TAG_BROADCAST_SUBJECT, <<"tags", "update">>, <<"tags", "delete">>}

NextTags ==
    \/ connect /\ UNCHANGED <<brokerVars, archVars, chanVars, playerVars, extVars>>
    \/ \E subject \in TagSubjects, tag_id \in {"x", "y", ""},
          status \in {"active", "deleted", ""}, ts \in 0..MaxTs,
          message_id \in 1..MaxRecords :
          /\ ApplyTagEvent(subject, TagPayload(tag_id, status, ts), message_id)
          /\ UNCHANGED <<brokerVars, archVars, chanVars, playerVars, extVars>>

SpecTags == Init /\ [][NextTags]_vars

\* The archiver draining tag events published on several tags.* subjects.
TagInputs ==
    { Msg(TAG_BROADCAST_SUBJECT, "g1", TagPayload("x", "active", 1)),
      Msg(TAG_BROADCAST_SUBJECT, "g2", TagPayload("x", "deleted", 2)),
      Msg(<<"tags", "update">>, "g3", TagPayload("x", "deleted", 2)) }

NextArchTags ==
    \/ \E m \in TagInputs : ArchPublish(m)
    \/ \E n \in 1..MaxBatch : DrainStart(n) /\ UNCHANGED <<brokerVars, chanVars, playerVars, extVars>>
    \/ DrainFetch /\ UNCHANGED <<brokerVars, chanVars, playerVars, extVars>>
    \/ DrainInsert /\ UNCHANGED <<brokerVars, chanVars, playerVars, extVars>>
    \/ DrainAck /\ UNCHANGED <<brokerVars, chanVars, playerVars, extVars>>
    \/ DrainProject /\ UNCHANGED <<brokerVars, chanVars, playerVars, extVars>>

SpecArchTags == InitArch /\ [][NextArchTags]_vars

\* Operators and clients calling the channel manager and its directory.
StopArguments == {None} \cup {ChannelIdOrder[r] : r \in 1..Len(ChannelIdOrder)} \cup {<<"replay", "unknown">>}

NextChan ==
    \/ \E identifier \in ReplayIdentifiers :
          StartGroupReplay(identifier) /\ UNCHANGED <<brokerVars, archVars, storeVars, playerVars, extVars>>
    \/ \E channel_id \in StopArguments :
          StopGroupReplay(channel_id) /\ UNCHANGED <<brokerVars, archVars, storeVars, playerVars, extVars>>
    \/ \E client_id \in ClientNames, session_id \in SessionNames, advertise \in BOOLEAN :
          RegisterPrivateChannel(client_id, session_id, advertise)
          /\ UNCHANGED <<brokerVars, archVars, storeVars, playerVars, extVars>>
    \/ \E client_id \in ClientNames, session_id \in SessionNames :
          RemovePrivateChannel(client_id, session_id)
          /\ UNCHANGED <<brokerVars, archVars, storeVars, playerVars, extVars>>
    \/ \E channel_id \in StopArguments \ {None} :
          DirectoryRemove(channel_id) /\ UNCHANGED <<brokerVars, archVars, storeVars, playerVars, extVars>>

SpecChan == Init /\ [][NextChan]_vars

\* The stores of n records, telemetry drawn with the given times.
RECURSIVE StoresOfLength(_, _)
StoresOfLength(n, times) ==
    IF n = 0 THEN {<<>>}
    ELSE {Append(store, record) : store \in StoresOfLength(n - 1, times),
                                  record \in RecordsAt(n, times)}

InitReplayWith(times, longest) ==
    /\ InitBroker /\ broker = "InMemoryJetStream"
    /\ InitArchiver
    /\ InitStore
    /\ InitChannels
    /\ InitPlayer
    /\ replayStore \in UNION {StoresOfLength(n, times) : n \in 1..longest}
    /\ rtask = [t \in ReplayTasks |-> IdleTask]
    /\ replays = 0
    /\ InitPresence
    /\ InitProducer
    /\ InitMore

OtherThanReplay == <<archVars, storeVars, chanVars, playerVars, presenceVars, producerVars, moreVars>>

\* One replayer replaying windows of an archived store, paced or not.
InitPace == InitReplayWith(TelemetryTimes, MaxRecords)

NextPace ==
    \/ \E pace \in BOOLEAN, lo \in 1..Len(replayStore), hi \in 0..Len(replayStore) :
          ReplayTimeWindow(1, "a", lo, hi, pace, MaxPacedReplays) /\ UNCHANGED OtherThanReplay
    \/ ReplayNext(1) /\ UNCHANGED OtherThanReplay
    \/ ReplayWake(1) /\ UNCHANGED OtherThanReplay

SpecPace == InitPace /\ [][NextPace]_vars

\* Replay tasks republishing overlapping windows of an archived store, at the
\* same time or one after the other, while live traffic goes on.
InitReplaySpec == InitReplayWith({<<0, 0>>}, MaxReplayed)

NextReplay ==
    \/ \E t \in ReplayTasks, room \in Rooms, lo \in 1..Len(replayStore) :
          ReplayTimeWindow(t, room, lo, Len(replayStore), FALSE, MaxReplays) /\ UNCHANGED OtherThanReplay
    \/ \E t \in ReplayTasks : ReplayNext(t) /\ UNCHANGED OtherThanReplay
    \/ \E i \in 1..MaxReplayed : LiveRepublish(i) /\ UNCHANGED OtherThanReplay

SpecReplay == InitReplaySpec /\ [][NextReplay]_vars

\* A producer with or without an allow-list, over a synchronous or an
\* asynchronous publisher, fed datagrams through both of its entry points.
InitIngest ==
    /\ InitBroker /\ broker = "InMemoryJetStream"
    /\ InitArchiver
    /\ InitStore
    /\ InitChannels
    /\ InitPlayer
    /\ InitReplay
    /\ InitPresence
    /\ InitMore
    /\ \E allow \in {NoAllowList, AllowList({1})}, kind \in {"sync", "async"} :
          InitProducerWith(allow, kind)

OtherThanProducer ==
    <<brokerVars, archVars, storeVars, chanVars, playerVars, replayVars, presenceVars, moreVars>>

NextIngest ==
    \/ \E datagram \in Datagrams : Ingest(datagram) /\ UNCHANGED OtherThanProducer
    \/ \E datagram \in Datagrams : IngestAsync(datagram) /\ UNCHANGED OtherThanProducer

SpecIngest == InitIngest /\ [][NextIngest]_vars

OtherThanSubjects ==
    <<brokerVars, archVars, storeVars, chanVars, playerVars, replayVars, presenceVars,
      producerVars, senderVars, restVars>>

OtherThanSenders ==
    <<brokerVars, archVars, storeVars, chanVars, playerVars, replayVars, presenceVars,
      producerVars, subjectVars, restVars>>

\* Operators sending display commands, tags and group replay broadcasts
\* through a publisher that accepts or refuses each message.
NextSenders ==
    \/ \E units \in {"metric", "Imperial", "feet", ""}, accepted \in BOOLEAN :
          SendUnits(units, accepted) /\ UNCHANGED OtherThanSenders
    \/ \E color \in {"red", " red ", " ", ""}, accepted \in BOOLEAN :
          SendMarkerColor(color, accepted) /\ UNCHANGED OtherThanSenders
    \/ \E name \in {"s1", " ", ""}, identifier \in {"7", " "}, accepted \in BOOLEAN :
          SendSessionMetadata(name, identifier, accepted) /\ UNCHANGED OtherThanSenders
    \/ \E comment \in {"note", " note ", " ", ""}, accepted \in BOOLEAN :
          CreateTag(comment, accepted) /\ UNCHANGED OtherThanSenders
    \/ \E identifier \in OpsIdentifiers, accepted \in BOOLEAN :
          OpsStartGroupReplay(identifier, accepted) /\ UNCHANGED OtherThanSenders
    \/ \E channel_id \in {None} \cup {group_replay_channel(i).channel_id : i \in OpsIdentifiers},
          accepted \in BOOLEAN :
          OpsStopGroupReplay(channel_id, accepted) /\ UNCHANGED OtherThanSenders

SpecSenders == Init /\ [][NextSenders]_vars

\* Two datagrams, headers and bodies of every kind, parsed and given their ids.
HeaderValues == {1, 11, 12}

DedupDatagrams ==
    {DatagramWith(Datagram(DATAGRAM_LENGTH, type_byte, version, sensor_id, day, time_ticks),
                  status, status, payload) :
        type_byte \in {GEOCENTRIC, SPHERICAL},
        version \in {SupportedVersion - 1, SupportedVersion},
        sensor_id \in HeaderValues, day \in HeaderValues \cup {2}, time_ticks \in {1, 2},
        status \in {0, 1}, payload \in {0, 1}}

InitDedup ==
    /\ InitBroker /\ broker = "InMemoryJetStream"
    /\ InitArchiver
    /\ InitStore
    /\ InitChannels
    /\ InitPlayer
    /\ InitReplay
    /\ InitPresence
    /\ InitProducer
    /\ InitSubjects
    /\ InitSenders
    /\ InitLive
    /\ InitUdp
    /\ InitRun
    /\ InitMetrics
    /\ \E a, b \in DedupDatagrams : InitDedupWith(a, b)

NextDedup ==
    /\ ParseBoth
    /\ UNCHANGED <<brokerVars, archVars, storeVars, chanVars, playerVars, replayVars,
                   presenceVars, producerVars, subjectVars, senderVars, liveVars, udpVars,
                   runVars, metricsVars>>

SpecDedup == InitDedup /\ [][NextDedup]_vars

\* Publishers feeding the broker of connect_in_memory while a player on the
\* livestream channel preloads.
LiveInputs ==
    { Msg(<<"tspi", "geocentric", "1">>, "m1", Telemetry(1)),
      Msg(<<"tspi", "geocentric", "1">>, "m2", Telemetry(2)),
      Msg(COMMAND_SUBJECT_PREFIX \o <<"units">>, "c1", CommandPayload("c1", "imperial")),
      Msg(TAG_BROADCAST_SUBJECT, "g1", TagPayload("x", "active", 1)) }

NextLive ==
    \/ \E m \in LiveInputs :
          /\ Publish(m)
          /\ UNCHANGED <<archVars, storeVars, chanVars, playerVars, replayVars, presenceVars,
                         producerVars, subjectVars, senderVars, restVars>>
    \/ \E batch \in 1..MaxBatch :
          /\ LivePreload(batch)
          /\ UNCHANGED <<brokerVars, archVars, storeVars, chanVars, playerVars, replayVars,
                         presenceVars, producerVars, subjectVars, senderVars, dedupLog,
                         udpVars, runVars, metricsVars>>

SpecLive == Init /\ [][NextLive]_vars

\* Datagrams arriving at a UDPIngestProtocol whose owner calls drain().
OtherThanUdp ==
    <<brokerVars, archVars, storeVars, chanVars, playerVars, replayVars, presenceVars,
      producerVars, subjectVars, senderVars, dedupLog, liveVars, runVars,
      metricsVars>>

NextUdp ==
    \/ DatagramReceived /\ UNCHANGED OtherThanUdp
    \/ \E task \in 1..MaxDatagrams : IngestSuspends(task) /\ UNCHANGED OtherThanUdp
    \/ \E task \in 1..MaxDatagrams : IngestFinishes(task) /\ UNCHANGED OtherThanUdp
    \/ DrainBegins /\ UNCHANGED OtherThanUdp
    \/ DrainResumes /\ UNCHANGED OtherThanUdp

SpecUdp == Init /\ [][NextUdp]_vars

\* Everything but the subject helpers, as constructed.
InitOthers ==
    /\ InitBroker /\ broker = "InMemoryJetStream"
    /\ InitArchiver
    /\ InitStore
    /\ InitChannels
    /\ InitPlayer
    /\ InitReplay
    /\ InitPresence
    /\ InitProducer
    /\ InitSenders
    /\ InitRest

\* normalize_stream_subjects applied to a subject list.
InitNormalize ==
    /\ InitOthers
    /\ \E n \in 0..MaxSubjects :
         \E subjects \in SubjectLists(SubjectsUpTo(SubjectTokens, MaxSubjectTokens), n) :
            normalizeLog = [called |-> FALSE, subjects |-> subjects, ret |-> <<>>]
    /\ matchLog = [called |-> FALSE, subject |-> <<>>, pattern |-> <<>>, ret |-> FALSE]

NextNormalize ==
    /\ ~normalizeLog.called
    /\ NormalizeStreamSubjects(normalizeLog.subjects)
    /\ UNCHANGED OtherThanSubjects

SpecNormalize == InitNormalize /\ [][NextNormalize]_vars

\* _match_subject applied to a concrete subject and a filter pattern.
InitMatch ==
    /\ InitOthers
    /\ normalizeLog = [called |-> FALSE, subjects |-> <<>>, ret |-> <<>>]
    /\ \E subject \in SubjectsUpTo({"a", "b"}, MaxFilterTokens),
          pattern \in SubjectsUpTo({"a", "b", "*", ">"}, MaxFilterTokens) :
            matchLog = [called |-> FALSE, subject |-> subject, pattern |-> pattern, ret |-> FALSE]

NextMatch ==
    /\ ~matchLog.called
    /\ MatchSubject(matchLog.subject, matchLog.pattern)
    /\ UNCHANGED OtherThanSubjects

SpecMatch == InitMatch /\ [][NextMatch]_vars

\* Status payloads of clients reaching the presence tracker in any order.
NextPresence ==
    \E client_id \in StatusClients, ts \in StatusTimes, state \in StatusStates,
       channel_id \in StatusChannels, override \in BOOLEAN :
        /\ ProcessPayload(StatusPayload(client_id, ts, state, channel_id, override))
        /\ UNCHANGED <<brokerVars, archVars, storeVars, chanVars, playerVars, replayVars, producerVars, moreVars>>

SpecPresence == Init /\ [][NextPresence]_vars

\* The player state engine following one channel.
OtherThanPlayer == <<brokerVars, archVars, storeVars, chanVars, extVars>>

NextPlayer ==
    \/ \E message \in PlayerMsgs : Arrive(message) /\ UNCHANGED OtherThanPlayer
    \/ \E batch \in 1..MaxBatch : Preload(batch) /\ UNCHANGED OtherThanPlayer
    \/ Start /\ UNCHANGED OtherThanPlayer
    \/ Pause /\ UNCHANGED OtherThanPlayer
    \/ StepOnce /\ UNCHANGED OtherThanPlayer
    \/ \E target \in 1..MaxTs : Seek(target) /\ UNCHANGED OtherThanPlayer
    \/ \E index \in 0..HistoryLimit : ScrubToIndex(index) /\ UNCHANGED OtherThanPlayer

SpecPlayer == Init /\ [][NextPlayer]_vars

\* What reaches the channels in the runs with channel switches.
OpsMsgs ==
    { Telemetry(1), TagPayload("x", "active", 1),
      Command("c1", "display.units", "imperial") }

\* What reaches the channel in the runs with payloads the schema rejects.
PreloadMsgs ==
    { Telemetry(1), BadTelemetry(TRUE), BadTelemetry(FALSE),
      TagPayload("x", "active", 1),
      Command("c1", "display.units", "imperial") }

\* A player over two channels with a scrub history shorter than the traffic.
InitPlayerOps ==
    /\ InitBroker /\ broker = "InMemoryJetStream"
    /\ InitArchiver
    /\ InitStore
    /\ InitChannels
    /\ \E scrub_history_size \in 0..(HistoryLimit - 1) : InitPlayerWith(scrub_history_size)
    /\ InitExt

NextPlayerOps ==
    \/ \E message \in OpsMsgs :
          arrivals < MaxOpsFeed /\ Arrive(message) /\ UNCHANGED OtherThanPlayer
    \/ arrivals < MaxOpsFeed /\ ArriveElsewhere(Telemetry(2)) /\ UNCHANGED OtherThanPlayer
    \/ \E batch \in 1..MaxBatch : Preload(batch) /\ UNCHANGED OtherThanPlayer
    \/ Start /\ UNCHANGED OtherThanPlayer
    \/ Pause /\ UNCHANGED OtherThanPlayer
    \/ StepOnce /\ UNCHANGED OtherThanPlayer
    \/ \E target \in 1..MaxTs : Seek(target) /\ UNCHANGED OtherThanPlayer
    \/ \E index \in 0..HistoryLimit : ScrubToIndex(index) /\ UNCHANGED OtherThanPlayer
    \/ \E tag_id \in {"x", "y", ""} : SeekToTag(tag_id) /\ UNCHANGED OtherThanPlayer
    \/ \E channel \in {"live", "historical", "replay.x", ""} :
          SetChannel(channel) /\ UNCHANGED OtherThanPlayer

SpecPlayerOps == InitPlayerOps /\ [][NextPlayerOps]_vars

\* A player preloading and playing a channel that carries invalid telemetry.
NextPreload ==
    \/ \E message \in PreloadMsgs : Arrive(message) /\ UNCHANGED OtherThanPlayer
    \/ \E batch \in 1..MaxBatch : Preload(batch) /\ UNCHANGED OtherThanPlayer
    \/ Start /\ UNCHANGED OtherThanPlayer
    \/ StepOnce /\ UNCHANGED OtherThanPlayer

SpecPreload == Init /\ [][NextPreload]_vars

\* The player of SpecPlayerOps with its metrics followed.
OtherThanPlayerMetrics ==
    <<brokerVars, archVars, storeVars, chanVars, replayVars, presenceVars, producerVars,
      subjectVars, senderVars, dedupLog, liveVars, udpVars, runVars>>

NextMetrics ==
    \/ \E message \in OpsMsgs :
          /\ arrivals < MaxOpsFeed
          /\ Arrive(message)
          /\ UNCHANGED <<OtherThanPlayerMetrics, metricsVars>>
    \/ /\ arrivals < MaxOpsFeed
       /\ ArriveElsewhere(Telemetry(2))
       /\ UNCHANGED <<OtherThanPlayerMetrics, metricsVars>>
    \/ \E batch \in 1..MaxBatch : MetricsPreload(batch) /\ UNCHANGED OtherThanPlayerMetrics
    \/ MetricsStart /\ UNCHANGED OtherThanPlayerMetrics
    \/ MetricsPause /\ UNCHANGED OtherThanPlayerMetrics
    \/ MetricsStepOnce /\ UNCHANGED OtherThanPlayerMetrics
    \/ \E target \in 1..MaxTs : MetricsSeek(target) /\ UNCHANGED OtherThanPlayerMetrics
    \/ \E index \in 0..HistoryLimit :
          MetricsScrubToIndex(index) /\ UNCHANGED OtherThanPlayerMetrics
    \/ \E tag_id \in {"x", "y", ""} :
          MetricsSeekToTag(tag_id) /\ UNCHANGED OtherThanPlayerMetrics
    \/ \E channel \in {"live", "historical", "replay.x", ""} :
          MetricsSetChannel(channel) /\ UNCHANGED OtherThanPlayerMetrics

SpecMetrics == InitPlayerOps /\ [][NextMetrics]_vars

\* A headless runner over a source that publishers fill with a bounded number
\* of messages, before or during run(): telemetry, a tag, a command and
\* telemetry the schema rejects.
RunMsgs == OpsMsgs \cup {BadTelemetry(FALSE)}

OtherThanRun ==
    <<brokerVars, archVars, storeVars, chanVars, replayVars, presenceVars, producerVars,
      subjectVars, senderVars, dedupLog, liveVars, udpVars, metricsVars>>

NextRun ==
    \/ \E message \in RunMsgs :
          /\ arrivals < MaxFrames - 1
          /\ runPc \in {"created", "loop"}
          /\ Arrive(message)
          /\ UNCHANGED <<OtherThanRun, runVars>>
    \/ RunStart /\ UNCHANGED OtherThanRun
    \/ RunTurn /\ UNCHANGED OtherThanRun

SpecRun == InitPlayerOps /\ [][NextRun]_vars

\* run() is a sequential loop: it keeps taking turns.
SpecRunFair ==
    /\ SpecRun
    /\ WF_vars(RunStart /\ UNCHANGED OtherThanRun)
    /\ WF_vars(RunTurn /\ UNCHANGED OtherThanRun)

----------------------------------------------------------------------------
\* Claims about the broker

PublishStep == publishCalls' = publishCalls + 1

IdsStoredOnce ==
    \A i, j \in 1..Len(messages) :
        (i # j /\ messages[i].msgid # NoId) => messages[i].msgid # messages[j].msgid

DeliveredOnce ==
    \A c \in ConsumerIds :
        /\ \A a, b \in 1..Len(pulled[c]) : a # b => pulled[c][a] # pulled[c][b]
        /\ \A a \in 1..Len(pulled[c]) : pulled[c][a] \in Matched(messages, consumers[c].filter)
        /\ (consumers[c].live /\ consumers[c].cursor = Len(messages)) =>
              {pulled[c][a] : a \in 1..Len(pulled[c])} = Matched(messages, consumers[c].filter)

DuplicatePublishIsNoOp ==
    (PublishStep /\ publishResult'.msgid # NoId /\ publishResult'.msgid \in deduplication)
        => /\ publishResult'.ok = FALSE
           /\ messages' = messages
           /\ deduplication' = deduplication
           /\ \A c \in ConsumerIds : consumers[c].live => pending(c)' = pending(c)

\* C1: a publish whose Nats-Msg-Id was already accepted returns false and
\* changes neither the stream nor any consumer's pending count; every id is in
\* the stream once and a consumer with a matching filter delivers it once.
C1_PublishIdempotent ==
    /\ [](IdsStoredOnce /\ DeliveredOnce)
    /\ [][DuplicatePublishIsNoOp]_vars

C1_Witness ==
    /\ publishResult.ok = FALSE
    /\ \E c \in ConsumerIds :
          /\ consumers[c].live
          /\ consumers[c].cursor = Len(messages)
          /\ \E a \in 1..Len(pulled[c]) : messages[pulled[c][a]].msgid = publishResult.msgid

\* The stream positions whose subject the filter matches, in publish order.
MatchingInOrder(stream, filter) ==
    SelectSeq([i \in 1..Len(stream) |-> i],
              LAMBDA i : match_subject(stream[i].subject, filter))

PullsAreMatchingPrefix ==
    \A c \in ConsumerIds :
        consumers[c].live =>
            LET matching == MatchingInOrder(messages, consumers[c].filter) IN
                /\ Len(pulled[c]) <= Len(matching)
                /\ pulled[c] = SubSeq(matching, 1, Len(pulled[c]))
                /\ pending(c) = Len(matching) - Len(pulled[c])

PullReturnsAtMostBatch ==
    \A c \in ConsumerIds, n \in 1..MaxBatch :
        pull(c, n) =>
            /\ Len(pulled'[c]) <= Len(pulled[c]) + n
            /\ SubSeq(pulled'[c], 1, Len(pulled[c])) = pulled[c]

\* C29: a pull of n returns at most n messages; the pulls of a consumer, put
\* one after the other, are the messages its filter matches, in publish order
\* and without repeats; pending() is the number of matching messages it has
\* not returned yet.
C29_PullConsumerFifo ==
    /\ []PullsAreMatchingPrefix
    /\ [][PullReturnsAtMostBatch]_vars

C29_Witness ==
    \E c \in ConsumerIds :
        /\ consumers[c].live
        /\ Len(pulled[c]) >= 1
        /\ pending(c) >= 1
        /\ \E i \in 1..consumers[c].cursor :
              ~match_subject(messages[i].subject, consumers[c].filter)

----------------------------------------------------------------------------
\* Claims about the archiver

Consumed(i) ==
    \E k \in 1..NumSubscriptions : match_subject(messages[i].subject, SubscriptionFilters[k])

ConsumedIds == {messages[i].msgid : i \in {j \in 1..Len(messages) : Consumed(j)}}

AllCarryId == \A i \in 1..Len(messages) : messages[i].msgid # NoId

Unfetched(k) ==
    {i \in (cursors[k] + 1)..Len(messages) : match_subject(messages[i].subject, SubscriptionFilters[k])}

EverythingFetched ==
    started /\ apc = "idle" /\ \A k \in 1..NumSubscriptions : Unfetched(k) = {}

\* C4 (as amended): once the archiver is idle and no subscription has a
\* matching message left to fetch, count_messages() is the number of distinct
\* Nats-Msg-Id values published on the subjects it consumes.
C4_ArchiverExactness ==
    (AllCarryId /\ EverythingFetched) => count_messages = Cardinality(ConsumedIds)

C4_Witness ==
    /\ AllCarryId /\ EverythingFetched
    /\ skipped # {}
    /\ count_messages >= 1
    /\ \E i \in 1..Len(messages) : ~Consumed(i)

\* C4 as stated: "drained" means that the latest drain returned 0.
C4_DrainedWhenZero ==
    (AllCarryId /\ started /\ apc = "idle" /\ drainResult = 0 /\ quiet)
        => count_messages = Cardinality(ConsumedIds)

IsCommandSubject(subject) ==
    Len(subject) = Len(COMMAND_SUBJECT_PREFIX) + 1
    /\ SubSeq(subject, 1, Len(COMMAND_SUBJECT_PREFIX)) = COMMAND_SUBJECT_PREFIX

\* C5: every persisted message of a tspi.cmd.display.<name> subject is stored
\* with kind "command" and is in the commands projection once its drain is over.
C5_CommandsProjected ==
    apc = "idle" =>
        \A i \in 1..Len(rows) :
            IsCommandSubject(rows[i].subject) =>
                /\ rows[i].kind = "command"
                /\ payload_cmd_id(rows[i].payload) \in DOMAIN commands

SkipStep == apc = "project" /\ ainsert = NoneRet

ReturnStep == apc # "idle" /\ apc' = "idle"

SkipDoesNothing ==
    SkipStep => /\ commands' = commands
                /\ tags' = tags
                /\ rows' = rows
                /\ IF ReturnStep THEN drainResult' = stored ELSE stored' = stored

ReturnsNewRows == ReturnStep => drainResult' = Len(rows') - drainBase

\* C6: a message whose insert reports "already stored" gets no projection and
\* is not counted; drain returns the number of rows it added, and the results
\* of all drains add up to count_messages().
C6_SkipOnDuplicate ==
    /\ [][SkipDoesNothing /\ ReturnsNewRows]_vars
    /\ [](apc = "idle" => drainSum = count_messages)

C6_Witness ==
    /\ apc = "idle"
    /\ drainSum >= 1
    /\ \E i \in skipped :
          /\ starts_with_tags(messages[i].subject)
          /\ "x" \in DOMAIN tags
          /\ tags["x"].status # messages[i].payload.val

\* C7: a message is acknowledged only after its insert_message call returned,
\* and never when that call raised.
C7_AckAfterInsert ==
    /\ acked \subseteq insertReturned
    /\ acked \cap insertRaised = {}

C7_Witness == acked # {} /\ insertRaised # {}

\* The row at position k of the messages table has its projection: a command
\* with a cmd_id is in the commands table, a tag event with an id in the tags
\* table.
RowReflected(k) ==
    LET r == rows[k] IN
        /\ (starts_with_cmd_display(r.subject) /\ payload_cmd_id(r.payload) # "")
               => payload_cmd_id(r.payload) \in DOMAIN commands
        /\ (starts_with_tags(r.subject) /\ payload_tag_id(r.payload) # "")
               => payload_tag_id(r.payload) \in DOMAIN tags

\* C33: with drains going on, every stored command or tag message is reflected
\* in the commands or tags table in the end, also when a drain failed between
\* the acknowledgement of the message and its projection.
C33_ProjectionCatchesUp ==
    \A k \in 1..MaxPublishes :
        (k <= Len(rows)) ~> (k <= Len(rows) /\ RowReflected(k))

----------------------------------------------------------------------------
\* Claims about the datastore

\* replay_advertisement_subjects(): tspi.channel.replay.> and tspi.channel.client.>
NonLivestreamChannel(subject) ==
    \/ match_subject(subject, <<"tspi", "channel", "replay", ">">>)
    \/ match_subject(subject, <<"tspi", "channel", "client", ">">>)

\* C8: insert_message with the subject of a non-livestream channel returns
\* None, stores no row and raises nothing, connected or not.
C8_ChannelTrafficDropped ==
    NonLivestreamChannel(storeCall.subject) =>
        /\ storeCall.ret = NoneRet
        /\ Len(rows) = storeCall.before

----------------------------------------------------------------------------
\* Claims about the channel control plane

GroupReplays(table) == {c \in DOMAIN table : table[c].kind = "group_replay"}

StopWithoutArgument ==
    /\ chanCalls' = chanCalls + 1
    /\ chanRet'.op = "stop_group_replay"
    /\ chanRet'.arg = None

RECURSIVE LatestStillActive(_, _)
LatestStillActive(order, table) ==
    IF order = <<>> THEN None
    ELSE IF Last(order) \in GroupReplays(table) THEN Last(order)
    ELSE LatestStillActive(SubSeq(order, 1, Len(order) - 1), table)

StopsLatestStarted ==
    StopWithoutArgument =>
        IF startOrder # <<>> /\ Last(startOrder) \in GroupReplays(channels)
        THEN /\ chanRet'.ret = Last(startOrder)
             /\ channels' = [c \in DOMAIN channels \ {Last(startOrder)} |-> channels[c]]
        ELSE /\ chanRet'.ret = None
             /\ channels' = channels

\* C9 (as amended): stop_group_replay() without channel_id removes the group
\* replay of the latest start_group_replay call and returns its stop message
\* when that replay is still in the directory; otherwise it returns None and
\* removes nothing, also when older group replays remain.
C9_StopLatestStarted == [][StopsLatestStarted]_vars

C9_Witness ==
    /\ chanRet.op = "stop_group_replay" /\ chanRet.arg = None
    /\ chanRet.ret # None
    /\ Len(startOrder) >= 2
    /\ GroupReplays(channels) # {}

StopsLatestStillActive ==
    (StopWithoutArgument /\ GroupReplays(channels) # {}) =>
        /\ chanRet'.ret = LatestStillActive(startOrder, channels)
        /\ channels' = [c \in DOMAIN channels \ {LatestStillActive(startOrder, channels)} |->
                           channels[c]]

\* C9 as stated: whenever a group replay is in the directory, stop_group_replay()
\* removes the most recently started one that is still there.
C9_StopLatestStillActive == [][StopsLatestStillActive]_vars

\* C10: the directory always holds exactly one livestream descriptor, equal to
\* live_channel(), and list_channels() returns it first.
C10_LivestreamImmortal ==
    /\ LivestreamId \in DOMAIN channels
    /\ {c \in DOMAIN channels : channels[c].kind = "livestream"} = {LivestreamId}
    /\ channels[LivestreamId] = live_channel
    /\ list_channels(channels, TRUE)[1] = live_channel
    /\ list_channels(channels, FALSE)[1] = live_channel
    /\ Len(list_channels(channels, TRUE)) = Cardinality(DOMAIN channels)

C10_Witness ==
    /\ chanRet.op = "remove" /\ chanRet.arg = LivestreamId
    /\ GroupReplays(channels) # {}
    /\ \E c \in DOMAIN channels : channels[c].kind = "private_replay"

StopWithArgument ==
    /\ chanCalls' = chanCalls + 1
    /\ chanRet'.op = "stop_group_replay"
    /\ chanRet'.arg # None

StopOfOtherIsNoOp ==
    (StopWithArgument /\ chanRet'.arg \notin GroupReplays(channels)) =>
        /\ chanRet'.ret = None
        /\ channels' = channels
        /\ activeGroup' = activeGroup

\* C11: stop_group_replay(channel_id) with an id that is no group replay of the
\* directory (unknown, livestream or a private channel) returns None and leaves
\* the directory and the remembered latest group replay as they were.
C11_StopUnknownIsNoOp == [][StopOfOtherIsNoOp]_vars

C11_Witness ==
    /\ chanRet.op = "stop_group_replay"
    /\ chanRet.arg \in DOMAIN channels
    /\ channels[chanRet.arg].kind = "private_replay"
    /\ chanRet.ret = None
    /\ activeGroup \in GroupReplays(channels)

----------------------------------------------------------------------------
\* Claims about the player state engine

\* The latest values after playing the first n entries of a timeline step by step.
RECURSIVE Played(_, _)
Played(line, n) ==
    IF n = 0
    THEN PlayerView(default_units, default_marker_color, EmptyTable, <<>>)
    ELSE handle_message(Played(line, n - 1), line[n])

Latest(st) == <<st.units, st.color, st.tags>>

IsJump(op) == op \in {"scrub_to_index", "seek"}

\* C2: after steps and forward jumps only, display_units, marker_color and
\* the tag table are what step-by-step playback from 0 to the same position gives.
C2_ForwardJumpEqualsPlay ==
    continuous => Latest(View) = Latest(Played(timeline, position))

C2_Witness ==
    /\ continuous
    /\ IsJump(lastOp)
    /\ prevPosition >= 1
    /\ position > prevPosition
    /\ emitted # <<>>
    /\ Latest(View) # Latest(Played(timeline, prevPosition))

BackwardJumpMovesCursorOnly ==
    (IsJump(lastOp') /\ position' < position) =>
        /\ displayUnits' = displayUnits
        /\ markerColor' = markerColor
        /\ playerTags' = playerTags
        /\ emitted' = <<>>
        /\ timeline' = timeline

\* C3: a backward scrub or seek changes neither display_units, marker_color
\* nor the tag table and emits no command_event or tag_event.
C3_BackwardJumpKeepsState == [][BackwardJumpMovesCursorOnly]_vars

C3_Witness ==
    /\ IsJump(lastOp)
    /\ position < prevPosition
    /\ displayUnits # default_units
    /\ DOMAIN playerTags # {}
    /\ \E i \in (position + 1)..prevPosition : timeline[i].k # "tele"

----------------------------------------------------------------------------
\* Claims about the store replayer

RECURSIVE SumSeq(_)
SumSeq(seq) == IF seq = <<>> THEN 0 ELSE Head(seq) + SumSeq(Tail(seq))

PacedReplayDone(t) ==
    /\ rtask[t].pc = "idle"
    /\ rtask[t].pace
    /\ rtask[t].lo <= rtask[t].hi

\* C12: after a paced replay whose first and last records carry recv_epoch_ms,
\* the sleeps add up to max(0, last.recv_epoch_ms - first.recv_epoch_ms), within
\* one millisecond.
C12_SleepSumIsSpan ==
    \A t \in ReplayTasks :
        (/\ PacedReplayDone(t)
         /\ replayStore[rtask[t].lo].recv_epoch_ms # Absent
         /\ replayStore[rtask[t].hi].recv_epoch_ms # Absent) =>
            LET span == Max(0, replayStore[rtask[t].hi].recv_epoch_ms
                                 - replayStore[rtask[t].lo].recv_epoch_ms)
                slept == SumSeq(rtask[t].sleep_calls)
            IN slept - span <= 1 /\ span - slept <= 1

\* The delay the rule gives for a record after the record before it.
RuleDelay(record, previous) ==
    IF record.recv_epoch_ms # Absent /\ previous.recv_epoch_ms # Absent
    THEN Max(0, record.recv_epoch_ms - previous.recv_epoch_ms)
    ELSE IF record.time_s # Absent /\ previous.time_s # Absent
    THEN Max(0, record.time_s - previous.time_s)
    ELSE 0

\* C13: the delay before a replayed record is the recv_epoch_ms difference to
\* the record before it when both carry recv_epoch_ms, else the time_s
\* difference when both carry time_s, else 0; it is never negative and the
\* first record of a window gets no delay.
C13_DelayRule ==
    \A t \in ReplayTasks :
        \A k \in 1..Len(rtask[t].delays) :
            /\ rtask[t].delays[k] >= 0
            /\ rtask[t].delays[k] =
                  IF k = 1 THEN 0
                  ELSE RuleDelay(replayStore[rtask[t].lo + k - 1],
                                 replayStore[rtask[t].lo + k - 2])

\* What _replay has to publish for a stored record.
ReplayOf(room, record, sent) ==
    /\ sent.record = record.id
    /\ sent.subject = <<"player", room, "playout">> \o Tail(record.subject)
    /\ sent.body = record.cbor
    /\ DOMAIN sent.headers = DOMAIN record.headers \cup {"X-Replay-Origin"}
    /\ sent.headers["X-Replay-Origin"] = "datastore"
    /\ \A h \in DOMAIN record.headers :
          IF h = "Nats-Msg-Id"
          THEN sent.headers[h] # record.headers[h]
          ELSE sent.headers[h] = record.headers[h]

\* C14: a replay publishes once per record of its window, in the store's
\* order, on player.<room>.playout.<tail of the subject>, with the stored body
\* and the stored headers plus X-Replay-Origin: datastore and a rewritten
\* Nats-Msg-Id; the stored records keep their headers.
C14_OnePublishPerRecord ==
    /\ \A t \in ReplayTasks :
          /\ Len(rtask[t].published) = rtask[t].idx - rtask[t].lo
          /\ rtask[t].pc = "idle" => rtask[t].idx = Max(rtask[t].lo, rtask[t].hi + 1)
          /\ \A k \in 1..Len(rtask[t].published) :
                ReplayOf(rtask[t].room, replayStore[rtask[t].lo + k - 1], rtask[t].published[k])
    /\ \A i \in 1..Len(replayStore) : replayStore[i] \in RecordsAt(i, TelemetryTimes)

C14_Witness ==
    \E t \in ReplayTasks :
        /\ rtask[t].pc = "idle"
        /\ rtask[t].lo >= 2
        /\ rtask[t].pace
        /\ Len(rtask[t].published) >= 2
        /\ \E k \in 1..Len(rtask[t].published) :
              "Nats-Msg-Id" \in DOMAIN rtask[t].published[k].headers
        /\ \E k \in 1..Len(rtask[t].published) :
              "Nats-Msg-Id" \notin DOMAIN rtask[t].published[k].headers

\* C15: the broker accepts every publish of a replay.
C15_ReplayPublishAccepted ==
    \A t \in ReplayTasks :
        \A k \in 1..Len(rtask[t].published) : rtask[t].published[k].ok

----------------------------------------------------------------------------
\* Claims about the client presence tracker

LastSeenGrows ==
    \A c \in DOMAIN pclients : pclients'[c].last_seen_ts >= pclients[c].last_seen_ts

\* C16: whatever ts the status payloads carry, no client's last_seen_ts ever
\* decreases.
C16_LastSeenMonotonic == [][LastSeenGrows]_vars

ConnectionKept ==
    \A c \in DOMAIN pclients : pclients'[c].connection_ts = pclients[c].connection_ts

ConnectionIsFirstTs ==
    \A c \in DOMAIN pclients :
        /\ c \in DOMAIN firstTs
        /\ firstTs[c] # Absent => pclients[c].connection_ts = firstTs[c]
        /\ connectedEvents[c] = 1

\* C17: connection_ts is the ts of the first payload processed for the client
\* and no later payload changes it; one "New client connected" event is
\* emitted per client id.
C17_ConnectionSetOnce == []ConnectionIsFirstTs /\ [][ConnectionKept]_vars

C17_Witness ==
    /\ pcalls >= 3
    /\ \E c \in DOMAIN pclients :
          /\ pclients[c].last_seen_ts # pclients[c].connection_ts
          /\ firstTs[c] # Absent
          /\ pret.presence # None /\ pret.presence.client_id = c
          /\ pret.events # <<>>
    /\ Cardinality(DOMAIN pclients) = 2

----------------------------------------------------------------------------
\* Claims about the producer

ValidDatagram(datagram) == datagram # None /\ ~parse_fails(datagram)

\* The message a valid datagram has to be published as.
MessageOf(datagram) == prepare_message(NoAllowList, datagram, 1)

C19_OnePublishEitherWay ==
    (/\ ValidDatagram(ingestLog.datagram)
     /\ (allowed_sensors.configured =>
            ingestLog.datagram.sensor_id \in allowed_sensors.sensors)) =>
        /\ ingestLog.execs = <<MessageOf(ingestLog.datagram)>>
        /\ ingestLog.ret = Returned(MessageOf(ingestLog.datagram).payload)

\* C20: a datagram that fails to parse makes the producer return None and
\* publish nothing.
C20_ParseFailureReturnsNone ==
    (ingestLog.datagram # None /\ parse_fails(ingestLog.datagram)) =>
        /\ ingestLog.ret = ReturnedNone
        /\ ingestLog.calls = <<>>
        /\ ingestLog.execs = <<>>

SameKey(a, b) ==
    a.sensor_id = b.sensor_id /\ a.day = b.day /\ a.time_ticks = b.time_ticks

\* C31: two valid datagrams with the same sensor_id, day and time_ticks get the
\* same deduplication id "{sensor_id}:{day}:{time_ticks}", whatever their
\* type, status bytes and body; two that differ in one of the three get
\* different ids.
C31_DedupIdIsTheKey ==
    (dedupLog.called /\ ValidDatagram(dedupLog.a) /\ ValidDatagram(dedupLog.b)) =>
        /\ ~dedupLog.first.raised /\ ~dedupLog.second.raised
        /\ dedupLog.first.id = ToString(dedupLog.a.sensor_id) \o ":"
                                  \o ToString(dedupLog.a.day) \o ":"
                                  \o ToString(dedupLog.a.time_ticks)
        /\ SameKey(dedupLog.a, dedupLog.b) <=> dedupLog.first.id = dedupLog.second.id

C31_Witness ==
    /\ dedupLog.called
    /\ ValidDatagram(dedupLog.a) /\ ValidDatagram(dedupLog.b)
    /\ SameKey(dedupLog.a, dedupLog.b)
    /\ dedupLog.a.type_byte # dedupLog.b.type_byte
    /\ dedupLog.a.status # dedupLog.b.status
    /\ dedupLog.a.payload # dedupLog.b.payload
    /\ dedupLog.first.id = dedupLog.second.id

----------------------------------------------------------------------------
\* Claims about the player's metrics

\* C36: every metrics record emitted agrees with the engine state at that
\* moment: position is the cursor, timeline the length of the timeline,
\* source the current channel and lag the pending count of the active
\* receiver's consumer; also after set_channel and after a trimming preload.
C36_MetricsAgreeWithState ==
    \A e \in 1..Len(metricsEmitted) :
        /\ metricsEmitted[e].position = metricsEmitted[e].at.position
        /\ metricsEmitted[e].timeline = metricsEmitted[e].at.timeline
        /\ metricsEmitted[e].source = metricsEmitted[e].at.source
        /\ metricsEmitted[e].lag = metricsEmitted[e].at.lag

----------------------------------------------------------------------------
\* Claims about the headless runner

IsPrefix(short, long) ==
    Len(short) <= Len(long) /\ SubSeq(long, 1, Len(short)) = short

\* C32: with playback started and nothing but step_once called, every valid
\* message fetched is applied once and in fetch order, whatever the history
\* limit: what was applied is the beginning of what was fetched, and all
\* of it once the source is played out.
C32_FetchedAppliedInOrder ==
    /\ IsPrefix(runApplied, runFetched)
    /\ (runPc = "returned" /\ feed = <<>>) => runApplied = runFetched

\* C40: run() without duration and exit_on_idle returns once the source is
\* exhausted and the buffered messages are played.
C40_RunTerminates == <>(runPc \in {"returned", "raised"})

C40_Witness ==
    /\ runPc = "returned"
    /\ feed = <<>>
    /\ Len(runApplied) >= 2
    /\ position = Len(timeline)

----------------------------------------------------------------------------
\* Claims about the UDP ingest protocol

DrainReturns == udpDrain.pc # "returned" /\ udpDrain'.pc = "returned"

\* C39: when drain() returns, every datagram received before it was called or
\* while it was waiting has finished its ingest: no task is unfinished,
\* whether still in _pending or dropped from it.
C39_DrainLeavesNothingRunning ==
    [][DrainReturns => \A task \in 1..Len(udpTasks') : udpTasks'[task] = "done"]_vars

----------------------------------------------------------------------------
\* Claims about the livestream channel of connect_in_memory

\* C38: the player on the livestream channel of the default subject map puts
\* every message of the broker's stream into its timeline at most once.
C38_EnteredAtMostOnce ==
    \A i \in 1..Len(messages) :
        Cardinality({j \in 1..Len(liveEntered) : liveEntered[j] = i}) <= 1

----------------------------------------------------------------------------
\* Claims about the player's operations

\* The step is a call of op on the PlayerState, not an arrival of traffic.
CallStep(op) == lastOp' = op /\ arrivals' = arrivals

\* The messages the receiver handed over in this step.
Fetched == SubSeq(feed, 1, Len(feed) - Len(feed'))

TimelineInBounds ==
    /\ Len(timeline) <= historyLimit
    /\ 0 <= position
    /\ position <= Len(timeline)

\* A preload that overflows the cap keeps the newest historyLimit records and
\* moves the position back by the number dropped, not below 0.
PreloadTrims ==
    (CallStep("preload") /\ Len(timeline) + Len(Fetched) > historyLimit) =>
        LET extended == timeline \o Fetched
            dropped == Len(extended) - historyLimit
        IN /\ timeline' = SubSeq(extended, dropped + 1, Len(extended))
           /\ position' = Max(0, position - dropped)

\* C23: after every operation the timeline is no longer than
\* max(1, scrub_history_size) and 0 <= position <= len(timeline); a preload that
\* overflows the cap drops the oldest records and reduces position by the
\* number dropped, clamped at 0.
C23_TimelineBounded == []TimelineInBounds /\ [][PreloadTrims]_vars

\* A preload overflowed the cap and pulled the position back from 1 to 0.
C23_Witness ==
    /\ lastOp = "preload"
    /\ Len(timeline) = historyLimit
    /\ prevPosition = 1
    /\ position = 0
    /\ arrivals > historyLimit

\* The step is a set_channel call that names a known channel other than the
\* current one.
SwitchesChannel ==
    /\ lastArg' # ""
    /\ normalise_channel_name(lastArg') \in KnownChannels
    /\ normalise_channel_name(lastArg') # currentChannel

SetChannelEffect ==
    CallStep("set_channel") =>
        /\ UNCHANGED <<displayUnits, markerColor, playerTags>>
        /\ IF SwitchesChannel
           THEN /\ currentChannel' = normalise_channel_name(lastArg')
                /\ feed' = parked
                /\ parked' = feed
                /\ timeline' = <<>>
                /\ position' = 0
                /\ frames' = 0
           ELSE UNCHANGED <<currentChannel, feed, parked, timeline, position, frames,
                            sidebandCursor, playing, historyLimit>>

\* C24: set_channel to a different known channel puts that channel's receiver
\* in place of the active one, empties the timeline and resets position and the
\* frames metric, leaving display units, marker colour and the tag table as
\* they were; set_channel to an unknown or the current channel changes nothing.
C24_SetChannelResets == [][SetChannelEffect]_vars

\* The player switched to the replay channel after playing a tag and a units
\* command, and still knows both.
C24_Witness ==
    /\ lastOp = "set_channel"
    /\ lastArg = "historical"
    /\ currentChannel = "replay.default"
    /\ prevPosition = 2
    /\ position = 0
    /\ frames = 0
    /\ timeline = <<>>
    /\ displayUnits = "imperial"
    /\ "x" \in DOMAIN playerTags

\* The messages of a batch that preload has to append: everything but the
\* telemetry the schema rejects.
Appendable(message) == ~fails_schema(message)

PreloadDropsInvalidOnly ==
    CallStep("preload") =>
        /\ opResult' = "ok"
        /\ timeline' = timeline \o SelectSeq(Fetched, Appendable)

\* C25: a preload leaves the telemetry that fails schema validation out of
\* the timeline, appends every other message of the batch, commands and tags
\* included, and lets no error reach the caller.
C25_PreloadDropsInvalidOnly == [][PreloadDropsInvalidOnly]_vars

\* The latest values after playing entries from + 1 .. to of a timeline, one
\* step after the other, starting from the view st.
RECURSIVE PlayedOn(_, _, _, _)
PlayedOn(st, line, from, to) ==
    IF to <= from THEN st
    ELSE handle_message(PlayedOn(st, line, from, to - 1), line[to])

SeekToTagCatchesUp ==
    (CallStep("seek_to_tag") /\ position' > position) =>
        <<displayUnits', markerColor', playerTags'>>
            = Latest(PlayedOn(View, timeline, position, position'))

\* C34: a seek_to_tag that moves the cursor forward leaves display_units,
\* marker_color and the tag table as playing every message between the old
\* and the new position would have left them.
C34_SeekToTagCatchesUp == [][SeekToTagCatchesUp]_vars

\* What applying one message changes: a command sets the latest display
\* state and emits one command_event, a tag is upserted (deleted on status
\* "deleted") and emits one tag_event, telemetry touches neither.
AppliedOnce(message) ==
    IF message.k = "cmd"
    THEN /\ emitted' = <<Event("command_event", message)>>
         /\ playerTags' = playerTags
         /\ displayUnits' = IF message.name = "display.units"
                                /\ message.val \in {"metric", "imperial"}
                             THEN message.val ELSE displayUnits
         /\ markerColor' = IF message.name = "display.marker_color" /\ message.val # ""
                            THEN message.val ELSE markerColor
    ELSE IF message.k = "tag"
    THEN /\ emitted' = <<Event("tag_event", message)>>
         /\ IF message.val = "deleted"
            THEN message.id \notin DOMAIN playerTags'
            ELSE message.id \in DOMAIN playerTags' /\ playerTags'[message.id] = message
         /\ displayUnits' = displayUnits /\ markerColor' = markerColor
    ELSE /\ emitted' = <<>>
         /\ displayUnits' = displayUnits /\ markerColor' = markerColor
         /\ playerTags' = playerTags

\* One step_once while playing.  The message the cursor stands at is looked
\* up on the timeline with the fetched batch appended and nothing trimmed
\* yet; dropped is the number of oldest records the trimming removed, and
\* "on by one" is accepted counted from the old position or from the old
\* position moved back by the records dropped.
StepOnceApplies ==
    CallStep("step_once") =>
        LET extended == timeline \o Fetched
            dropped == Len(extended) - Len(timeline')
        IN /\ position < Len(timeline) => Fetched = <<>>
           /\ (position >= Len(timeline) /\ feed # <<>>) => Fetched # <<>>
           /\ IF position >= Len(extended)
              THEN /\ ~playing'
                   /\ position' = position
                   /\ emitted' = <<>>
                   /\ displayUnits' = displayUnits /\ markerColor' = markerColor
                   /\ playerTags' = playerTags
              ELSE /\ playing'
                   /\ position' \in {position + 1, position - dropped + 1}
                   /\ AppliedOnce(extended[position + 1])

\* C35: while playing, step_once fetches a batch first when the cursor is at
\* the end of the timeline, pauses when the receiver has nothing more, and
\* otherwise moves the cursor on by one and applies the message it stood at.
C35_StepOnceApplies == [][StepOnceApplies]_vars

----------------------------------------------------------------------------
\* Claims about the tags of the store

TagTimesKept ==
    \A t \in DOMAIN tags :
        /\ t \in DOMAIN tags'
        /\ tags'[t].ts = tags[t].ts
        /\ tags'[t].updated_ts >= tags[t].updated_ts

\* C27: whatever tag events apply_tag_event is given, a stored tag keeps the ts
\* it was created with and its updated_ts never decreases.
C27_TagTimesKept == [][TagTimesKept]_vars

\* The tag events the archiver has applied for tag t, as stream indices.
AppliedFor(t) ==
    {i \in projected : messages[i].payload.k = "tag" /\ messages[i].payload.id = t}

\* C28: once the archiver has applied a tag event whose payload has status
\* "deleted", on whatever subject its tags.> filter matches, list_tags() with
\* default arguments does not return that tag.
C28_DeletedTagsNotListed ==
    \A t \in {"x"} :
        \A i \in AppliedFor(t) :
            (/\ \A j \in AppliedFor(t) : j <= i
             /\ messages[i].payload.val = "deleted")
                => t \notin list_tags(tags, FALSE)

----------------------------------------------------------------------------
\* Claims about the senders

\* The latest sender call was given a value its command does not allow.
InvalidSend ==
    \/ /\ sendLog.op = "send_units"
       /\ lower(sendLog.args[1]) \notin {"metric", "imperial"}
    \/ /\ sendLog.op = "send_marker_color"
       /\ strip(sendLog.args[1]) = ""
    \/ /\ sendLog.op = "send_session_metadata"
       /\ strip(sendLog.args[1]) = "" \/ strip(sendLog.args[2]) = ""
    \/ /\ sendLog.op = "create_tag"
       /\ strip(sendLog.args[1]) = ""

\* C26: send_units with a value other than metric / imperial, send_marker_color
\* with a colour empty after trim, send_session_metadata with a name or id
\* empty after trim and create_tag with a comment empty after trim raise a
\* validation error and publish nothing.
C26_SendersValidateFirst ==
    InvalidSend => (sendLog.result = "ValueError" /\ sendLog.handed = <<>>)

\* The channel of the last start that went through, unless a stop of that
\* channel went through since.
RECURSIVE KnownChannel(_)
KnownChannel(history) ==
    IF history = <<>> THEN None
    ELSE LET before == KnownChannel(SubSeq(history, 1, Len(history) - 1))
             last == history[Len(history)]
         IN IF last.op = "start_group_replay" THEN last.channel
            ELSE IF last.channel = before THEN None
            ELSE before

OpsStep ==
    /\ sendCalls' = sendCalls + 1
    /\ sendLog'.op \in {"start_group_replay", "stop_group_replay"}

StopWithoutChannel ==
    (sendLog'.op = "stop_group_replay" /\ sendLog'.args = <<None>>) =>
        IF KnownChannel(opsHistory) = None
        THEN /\ sendLog'.result = "ValueError"
             /\ sendLog'.handed = <<>>
        ELSE /\ Len(sendLog'.handed) = 1
             /\ sendLog'.handed[1].subject = OPS_CONTROL_SUBJECT
             /\ sendLog'.handed[1].body =
                    [name |-> "GroupReplayStop", val |-> KnownChannel(opsHistory)]
             /\ sendLog'.handed[1].returned =>
                    /\ sendLog'.result = "ok"
                    /\ opsActive' = None
                    /\ KnownChannel(opsHistory') = None

RefusedPublishRaises ==
    (sendLog'.handed # <<>> /\ ~sendLog'.handed[1].returned) =>
        /\ sendLog'.result = "RuntimeError"
        /\ opsActive' = opsActive

OpsStopEffect == OpsStep => (StopWithoutChannel /\ RefusedPublishRaises)

\* C30: stop_group_replay() without channel_id publishes a GroupReplayStop for
\* the channel of the last successful start_group_replay and forgets it; with
\* no known channel it raises and publishes nothing; when a publish returns
\* false the sender raises and its active channel stays as it was.
C30_OpsStopLastStarted == [][OpsStopEffect]_vars

\* Two replays were started and a stop without channel_id went through.
C30_Witness ==
    /\ sendLog.op = "stop_group_replay"
    /\ sendLog.args = <<None>>
    /\ sendLog.result = "ok"
    /\ Len(opsHistory) = 3
    /\ opsHistory[1].op = "start_group_replay"
    /\ opsHistory[2].op = "start_group_replay"
    /\ opsHistory[3].channel = opsHistory[2].channel
    /\ opsActive = None

----------------------------------------------------------------------------
\* Claims about subjects

\* sub is obtained from seq by deleting elements, order kept.
RECURSIVE IsSubList(_, _)
IsSubList(sub, seq) ==
    IF sub = <<>> THEN TRUE
    ELSE IF seq = <<>> THEN FALSE
    ELSE IF Head(sub) = Head(seq) THEN IsSubList(Tail(sub), Tail(seq))
    ELSE IsSubList(sub, Tail(seq))

\* e is covered by a "<prefix>.>" entry of subjects other than e itself: the
\* entry ends in ">", its tokens before the ">" lead e, and e goes on where
\* the ">" stands.
CoveredBySibling(subjects, e) ==
    \E j \in 1..Len(subjects) :
        /\ subjects[j][Len(subjects[j])] = ">"
        /\ Len(e) >= Len(subjects[j])
        /\ SubSeq(e, 1, Len(subjects[j]) - 1) = SubSeq(subjects[j], 1, Len(subjects[j]) - 1)
        /\ \/ subjects[j] # e
           \/ Cardinality({i \in 1..Len(subjects) : subjects[i] = e}) >= 2

\* C21: normalize_stream_subjects(S) is S with some entries deleted, order
\* kept, and no entry it returns is covered by a "<prefix>.>" sibling of S.
C21_NormalizeIsUncoveredSubList ==
    normalizeLog.called =>
        /\ IsSubList(normalizeLog.ret, normalizeLog.subjects)
        /\ \A k \in 1..Len(normalizeLog.ret) :
              ~CoveredBySibling(normalizeLog.subjects, normalizeLog.ret[k])

\* e is one of the returned entries, or a returned "<prefix>.>" entry has
\* its tokens before the ">" as the leading tokens of e.
StillCovered(ret, e) ==
    \E k \in 1..Len(ret) :
        \/ ret[k] = e
        \/ /\ ret[k][Len(ret[k])] = ">"
           /\ Len(e) >= Len(ret[k]) - 1
           /\ SubSeq(e, 1, Len(ret[k]) - 1) = SubSeq(ret[k], 1, Len(ret[k]) - 1)

\* C37: every subject of the list given to normalize_stream_subjects is
\* returned or covered by a returned "<prefix>.>" entry, also when the list
\* holds the same wildcard subject twice.
C37_NormalizeKeepsCoverage ==
    normalizeLog.called =>
        \A i \in 1..Len(normalizeLog.subjects) :
            StillCovered(normalizeLog.ret, normalizeLog.subjects[i])

\* An entry was removed because a later "<prefix>.>" entry covers it, and
\* that entry was kept.
C21_Witness ==
    /\ normalizeLog.called
    /\ normalizeLog.subjects = <<<<"a", "b">>, <<"a", ">">>>>
    /\ normalizeLog.ret = <<<<"a", ">">>>>

\* `*` stands for exactly one token, `>` for one or more trailing tokens, any
\* other pattern token for itself.
RECURSIVE Matches(_, _)
Matches(subject, pattern) ==
    IF pattern = <<>> THEN subject = <<>>
    ELSE IF Head(pattern) = ">" THEN Len(pattern) = 1 /\ Len(subject) >= 1
    ELSE /\ subject # <<>>
         /\ Head(pattern) = "*" \/ Head(pattern) = Head(subject)
         /\ Matches(Tail(subject), Tail(pattern))

\* `>` occurs in the pattern as its last token only.
WellFormedPattern(pattern) ==
    \A i \in 1..Len(pattern) : pattern[i] = ">" => i = Len(pattern)

\* C22: _match_subject says a subject matches a filter exactly when `*`
\* stands for one token, `>` for one or more trailing tokens and every other
\* pattern token for itself.
C22_WildcardMatching ==
    (matchLog.called /\ WellFormedPattern(matchLog.pattern)) =>
        matchLog.ret = Matches(matchLog.subject, matchLog.pattern)

====
